---- MODULE Spec2Model ----
(***************************************************************************)
(* Model of the AI test-case generation pipeline of backend/TEST10.py:     *)
(* the response parser and quality scorer, the target-count function, the  *)
(* deterministic fallback generator and the three-attempt orchestrator     *)
(* AITestCaseGenerator._generate_ai_tests.                                 *)
(*                                                                         *)
(* Text is a sequence of lexical units: a word (a maximal run of \w        *)
(* characters), a run of blanks, a newline, a colon, a run of other        *)
(* punctuation, or a whole "[TEST n]" tag.  The regular expressions of the *)
(* parser are evaluated over these units.                                  *)
(***************************************************************************)
EXTENDS Integers, Sequences, FiniteSets, TLC

VARIABLES
    func_analysis,   \* the FunctionAnalysis being processed
    pc,              \* position inside _generate_ai_tests / the pure-function harness
    target_tests,    \* local target_tests
    all_tests,       \* local all_tests (the running set, a sequence)
    seen_codes,      \* local seen_codes
    final,           \* the returned sequence
    raised,          \* TRUE when an exception left _generate_ai_tests
    issued,          \* temperatures of the completion requests issued, in order
    steps,           \* history: per step taken, what it saw and what it produced
    fallback_called, \* TRUE when _generate_intelligent_fallback was invoked
    response,        \* input of the parser harness: a completion text
    parsed,          \* output of the parser harness
    test_data,       \* input of the scorer harness
    quality,         \* output of the scorer harness
    fallback_tests,  \* output of the fallback-generator harness
    user_code,       \* run: the source text given, as what analyze makes of it
    functions,       \* run: local functions, the analysis map in iteration order
    func_idx,        \* run: position of the loop over functions
    reports,         \* self.reports, as the set of its entries, one per function name
    emitted,         \* run: what the generator has yielded for the functions, in order
    requests,        \* run: number of completion requests issued
    fallback_calls,  \* run: number of calls of _generate_intelligent_fallback
    args,            \* main: the parsed command-line flags
    saved            \* main: the kinds of report written

vars == <<func_analysis, pc, target_tests, all_tests, seen_codes, final, raised,
          issued, steps, fallback_called, response, parsed, test_data, quality,
          fallback_tests, user_code, functions, func_idx, reports, emitted, requests,
          fallback_calls, args, saved>>

-----------------------------------------------------------------------------
(* Lexical units *)

NL == "\n"
SP == " "
IND == "    "
IND2 == "        "
COLON == ":"

Blank == {SP, IND, IND2, NL}

\* units that match \[TEST\s+\d+\] (IGNORECASE)
TagToks == {"[TEST 1]", "[TEST 2]", "[test 3]"}

\* runs of punctuation other than the colon; "[TEST x]" is a bracket that is no tag
Punct == {"(", ")", "()", "=", "==", ",", "'", "('", "')", "',", "('/", "/", "/')", "#",
          "{", "}", "={})", "={'", "'})", "[", "]", "[]", "-", ">=", ".", "((", "),(", "))",
          "(-", ",-", "('',", "'')", ")))", "([])", "[TEST x]"}

IsBlank(t) == t \in Blank
IsTag(t) == t \in TagToks
IsWord(t) == t \notin (Blank \cup TagToks \cup Punct \cup {COLON})

\* str.upper() / str.lower() on the units whose case matters to the parser
Upper(t) ==
    CASE t = "code" -> "CODE"
      [] t = "expected" -> "EXPECTED"
      [] t = "type" -> "TYPE"
      [] t = "description" -> "DESCRIPTION"
      [] OTHER -> t

Lower(t) ==
    CASE t = "Boundary" -> "boundary"
      [] t = "EDGE" -> "edge"
      [] t = "ASSERT" -> "assert"
      [] t = "Assert" -> "assert"
      [] t = "Login" -> "login"
      [] t = "Router" -> "router"
      [] OTHER -> t

Min(S) == CHOOSE x \in S : \A y \in S : x <= y

RECURSIVE CharLen(_)
\* len(s) in characters
CharLen(s) == IF s = <<>> THEN 0 ELSE Len(Head(s)) + CharLen(Tail(s))

RECURSIVE Strip(_)
\* str.strip()
Strip(s) ==
    IF s = <<>> THEN <<>>
    ELSE IF IsBlank(Head(s)) THEN Strip(Tail(s))
    ELSE IF IsBlank(s[Len(s)]) THEN Strip(SubSeq(s, 1, Len(s) - 1))
    ELSE s

\* substring test `sub in s`, for a one-unit sub
Contains(s, sub) == \E i \in 1..Len(s) : s[i] = sub

\* `sub in s.lower()`
ContainsLower(s, sub) == \E i \in 1..Len(s) : Lower(s[i]) = sub

-----------------------------------------------------------------------------
(* _parse_ai_response, _parse_test_block, _score_test_quality *)

\* first position >= j of a unit that is not \s, Len+1 when there is none
SkipBlank(s, j) == Min({k \in j..Len(s) : ~IsBlank(s[k])} \cup {Len(s) + 1})

\* first position >= j of a unit that is not \w, Len+1 when there is none
SkipWord(s, j) == Min({k \in j..Len(s) : ~IsWord(s[k])} \cup {Len(s) + 1})

\* `$` without MULTILINE: the end of the string, or just before a final newline
AtDollar(s, p) == p = Len(s) + 1 \/ (p = Len(s) /\ s[p] = NL)

\* a colon at position c: the position after it, else 0
AfterColon(s, c) == IF c <= Len(s) /\ s[c] = COLON THEN c + 1 ELSE 0

\* position after `LABEL\s*:` when it matches at i (IGNORECASE), else 0
AfterLabel(s, i, label) ==
    IF Upper(s[i]) # label THEN 0 ELSE AfterColon(s, SkipBlank(s, i + 1))

\* \w+\s*: from position p to the end w of the word run
WordThenColon(s, p, w) == w > p /\ AfterColon(s, SkipBlank(s, w)) # 0

\* the lookahead \n\w+\s*: at position p
NewlineWordColon(s, p) ==
    /\ p <= Len(s) /\ s[p] = NL
    /\ WordThenColon(s, p + 1, SkipWord(s, p + 1))

\* the lookahead \n\[TEST at position p
NewlineTestBracket(s, p) ==
    /\ p + 1 <= Len(s) /\ s[p] = NL
    /\ s[p + 1] \in TagToks \cup {"[TEST x]"}

\* (?=\n\w+\s*:|$), the lookahead that ends a CODE or EXPECTED value
FieldStop(s, p) == NewlineWordColon(s, p) \/ AtDollar(s, p)

\* (?=\n\[TEST|$), the lookahead that ends a DESCRIPTION value
DescStop(s, p) == NewlineTestBracket(s, p) \/ AtDollar(s, p)

\* the lookahead of a field's pattern: "label" for CODE and EXPECTED, "tag" for
\* DESCRIPTION
StopAt(stop, s, p) == IF stop = "tag" THEN DescStop(s, p) ELSE FieldStop(s, p)

\* (\w+) at position b: the word run, <<>> when there is none
WordRun(s, b) == SubSeq(s, b, SkipWord(s, b) - 1)

\* TYPE\s*:\s*(\w+) matches at i
TypeAt(s, i) ==
    /\ AfterLabel(s, i, "TYPE") # 0
    /\ WordRun(s, SkipBlank(s, AfterLabel(s, i, "TYPE"))) # <<>>

TypeFrom(s, cands) ==
    IF cands = {} THEN <<>>
    ELSE WordRun(s, SkipBlank(s, AfterLabel(s, Min(cands), "TYPE")))

\* re.search(r'TYPE\s*:\s*(\w+)'): group(1) of the leftmost match, <<>> when none
TypeGroup(s) == TypeFrom(s, {i \in 1..Len(s) : TypeAt(s, i)})

\* LABEL\s*:\s*(.+?)(?=stop) matches at i: the colon is there and a character follows
FieldAt(s, i, label) == AfterLabel(s, i, label) # 0 /\ AfterLabel(s, i, label) <= Len(s)

\* (.+?)(?=stop) with \s* ended at b.  \s* gives back its last character when
\* nothing but blanks follows the colon, so that .+? has the one character it needs.
LazyGroup(s, b, stop) ==
    IF b > Len(s) THEN <<IF s[Len(s)] = NL THEN NL ELSE SP>>
    ELSE SubSeq(s, b, Min({k \in b..Len(s) : StopAt(stop, s, k + 1)}))

FieldFrom(s, label, stop, cands) ==
    IF cands = {} THEN [found |-> FALSE, group |-> <<>>]
    ELSE [found |-> TRUE,
          group |-> LazyGroup(s, SkipBlank(s, AfterLabel(s, Min(cands), label)), stop)]

\* re.search(r'LABEL\s*:\s*(.+?)(?=stop)', DOTALL | IGNORECASE): [found, group] of
\* the leftmost match
FieldGroup(s, label, stop) ==
    FieldFrom(s, label, stop, {i \in 1..Len(s) : FieldAt(s, i, label)})

NoneData == [is_none |-> TRUE]

\* test_data['type'], lines 702-706
TypeValue(tm) == IF tm # <<>> THEN [i \in 1..Len(tm) |-> Lower(tm[i])] ELSE <<"normal">>

\* lines 708-723: the dict filled from the four matches, or None without code
TestData(tm, cm, em, dm) ==
    IF Strip(cm.group) = <<>> THEN NoneData
    ELSE [is_none |-> FALSE,
          type |-> TypeValue(tm),
          code |-> Strip(cm.group),
          has_expected |-> em.found,
          expected |-> Strip(em.group),
          has_description |-> dm.found,
          description |-> Strip(dm.group)]

\* _parse_test_block: the dict of one block, or None
ParseTestBlock(block) ==
    TestData(TypeGroup(block),
             FieldGroup(block, "CODE", "label"),
             FieldGroup(block, "EXPECTED", "label"),
             FieldGroup(block, "DESCRIPTION", "tag"))

\* the score 1.0, in units of 1/ScoreOne
ScoreOne == 1600000

\* `if cond: score *= num/den`
Times(cond, score, num, den) == IF cond THEN (score * num) \div den ELSE score

\* a score returned as computed
NoClamp(score) == score

\* min(max(score, 0.1), 1.0)
Clamp(score) ==
    IF score < ScoreOne \div 10 THEN ScoreOne \div 10
    ELSE IF score > ScoreOne THEN ScoreOne ELSE score

\* the product with the short-code test at 10 characters
RawScoreShortBelowTen(code, expected, func_name) ==
    Times(CharLen(code) > 60,
      Times(CharLen(code) > 30,
        Times(ContainsLower(code, "assert"),
          Times(Contains(code, func_name),
            Times(expected = <<>>,
              Times(code = <<>> \/ CharLen(code) < 10, ScoreOne, 3, 10),
              1, 2),
            11, 10),
          21, 20),
        21, 20),
      21, 20)

\* the product of lines 727-751
RawScore(code, expected, func_name) ==
    Times(CharLen(code) > 60,
      Times(CharLen(code) > 30,
        Times(ContainsLower(code, "assert"),
          Times(Contains(code, func_name),
            Times(expected = <<>>,
              Times(code = <<>> \/ CharLen(code) < 5, ScoreOne, 3, 10),
              1, 2),
            11, 10),
          21, 20),
        21, 20),
      21, 20)

\* _score_test_quality
ScoreTestQuality(td, func_name) == Clamp(RawScore(td.code, td.expected, func_name))

\* the tag positions of the text, and the end of the block that starts after tag p
TagPositions(text) == {i \in 1..Len(text) : IsTag(text[i])}
BlockEnd(text, p) ==
    Min({k \in (p + 1)..(Len(text) + 1) : AtDollar(text, k) \/ IsTag(text[k])})

\* the i-th smallest element of a set of numbers
Nth(S, i) == CHOOSE p \in S : Cardinality({q \in S : q <= p}) = i

\* group(1) of the match that starts at tag p
BlockAfter(text, p) == SubSeq(text, p + 1, BlockEnd(text, p) - 1)

\* re.findall(r'\[TEST\s+\d+\](.*?)(?=\[TEST\s+\d+\]|$)', DOTALL | IGNORECASE): every
\* tag starts a match, which ends before the next tag or at `$`
FindAll(text) ==
    [i \in 1..Cardinality(TagPositions(text)) |->
        BlockAfter(text, Nth(TagPositions(text), i))]

\* the GeneratedTest built at lines 680-686
MakeTest(td, block_idx, func_name) ==
    [code |-> td.code,
     description |-> IF td.has_description THEN td.description
                     ELSE <<"AI-generated test case ", ToString(block_idx)>>,
     test_type |-> td.type,
     expected |-> td.expected,
     quality_score |-> ScoreTestQuality(td, func_name)]

\* a block kept as soon as it has code
CodeOnly(td) == ~td.is_none /\ td.code # <<>>

\* the condition of line 677
BlockComplete(td) == ~td.is_none /\ td.code # <<>> /\ td.expected # <<>>

\* lines 677-690: the records one block adds to tests
BlockTests(td, block_idx, func_name) ==
    IF BlockComplete(td) THEN <<MakeTest(td, block_idx, func_name)>> ELSE <<>>

RECURSIVE ParseBlocks(_, _, _)
\* the loop of lines 673-692
ParseBlocks(blocks, block_idx, func_name) ==
    IF block_idx > Len(blocks) THEN <<>>
    ELSE BlockTests(ParseTestBlock(blocks[block_idx]), block_idx, func_name)
         \o ParseBlocks(blocks, block_idx + 1, func_name)

\* _parse_ai_response
ParseAiResponse(text, func_name) == ParseBlocks(FindAll(text), 1, func_name)

-----------------------------------------------------------------------------
(* Completion texts *)

\* "[TEST 1] TYPE: boundary CODE: f(0) EXPECTED: 0 DESCRIPTION: zero test [TEST 2] CODE: f(1)"
ExampleText ==
    <<"[TEST 1]", SP, "TYPE", COLON, SP, "boundary", SP, "CODE", COLON, SP, "f", "(", "0", ")",
      SP, "EXPECTED", COLON, SP, "0", SP, "DESCRIPTION", COLON, SP, "zero", SP, "test", SP,
      "[TEST 2]", SP, "CODE", COLON, SP, "f", "(", "1", ")">>

-----------------------------------------------------------------------------
(* FunctionAnalysis profiles *)

MaxParams == 4
MaxRaises == 4
MaxExtraCalls == 1
MaxTargetParams == 16

Complexities == {"simple", "moderate", "complex"}
FuncTypes == {"api_endpoint", "context_manager", "db_function", "auth_function",
              "property", "utility"}

\* exception names found by _find_raised_exceptions, in some list(set(...)) order
ExcOrder == <<"ValueError", "Exception", "TypeError", "KeyError", "OSError", "IOError">>
CallOrder == <<"len", "open", "print">>

\* return types (_analyze_return_type), cut so that the substrings the fallback
\* generator looks for are units; <<>> stands for None
ReturnTypes == {<<>>, <<"bool">>, <<"int">>, <<"str">>, <<"list">>, <<"numeric">>,
                <<"float", "(...)">>, <<"str", "_to_", "int", "(...)">>, <<"var:", "x">>}

NParams(fa) == Len(fa.parameters)
NTyped(fa) == Cardinality({i \in 1..Len(fa.parameters) : fa.parameters[i] # ""})

\* fewest nodes ast.walk can yield for a function with this profile
MinNodes(fa) ==
    LET r == Len(fa.raises_exceptions)
        c == Len(fa.external_calls)
    IN 2 + NParams(fa) + 2 * NTyped(fa)
       + (IF r > 0 THEN 4 * r + 3 * (c - r) ELSE IF c > 0 THEN 1 + 3 * c ELSE 1)
       + (IF fa.is_generator THEN 1 ELSE 0)

\* what _analyze_function can produce: a generator is classified api_endpoint or
\* context_manager; every raised constructor is also an external call; the
\* complexity rating is at least what the node count forces
Analyzable(fa) ==
    /\ fa.is_generator => fa.func_type \in {"api_endpoint", "context_manager"}
    /\ Len(fa.external_calls) >= Len(fa.raises_exceptions)
    /\ fa.complexity = "simple" => MinNodes(fa) <= 20
    /\ fa.complexity = "moderate" => MinNodes(fa) <= 50

MakeProfile(cx, ft, n, pt, rt, asy, gen, r, x) ==
    [name |-> "f", func_type |-> ft, parameters |-> [i \in 1..n |-> pt],
     return_type |-> rt, is_async |-> asy, is_generator |-> gen,
     raises_exceptions |-> SubSeq(ExcOrder, 1, r),
     complexity |-> cx,
     external_calls |-> SubSeq(ExcOrder, 1, r) \o SubSeq(CallOrder, 1, x)]

\* a simple parameterless utility function f that raises and calls nothing
PlainProfile(rt) == MakeProfile("simple", "utility", 0, "", rt, FALSE, FALSE, 0, 0)

-----------------------------------------------------------------------------
(* _calculate_target_tests *)

\* lines 521-524
ComplexityTests(fa) ==
    IF fa.complexity = "complex" THEN 15
    ELSE IF fa.complexity = "moderate" THEN 8 ELSE 0

\* lines 527-530
FuncTypeTests(fa) ==
    IF fa.func_type \in {"context_manager", "db_function", "api_endpoint"} THEN 10
    ELSE IF fa.func_type = "auth_function" THEN 8 ELSE 0

\* the parameter term with the 3n branch taken from three parameters on
ParamTestsFromThree(param_count) ==
    IF param_count >= 3 THEN param_count * 3
    ELSE IF param_count > 0 THEN param_count * 2 ELSE 0

\* lines 533-537
ParamTests(param_count) ==
    IF param_count > 3 THEN param_count * 3
    ELSE IF param_count > 0 THEN param_count * 2 ELSE 0

\* lines 540-541
ExceptionTests(fa) ==
    IF fa.raises_exceptions # <<>> THEN Len(fa.raises_exceptions) * 2 ELSE 0

\* lines 544-545
ExternalCallTests(fa) ==
    IF fa.external_calls # <<>> THEN Len(fa.external_calls) ELSE 0

\* min(base_tests, 100)
CapTests(base_tests) == IF base_tests < 100 THEN base_tests ELSE 100

\* the target counted up from a base of 10
TargetFromTen(fa) ==
    CapTests(10 + ComplexityTests(fa) + FuncTypeTests(fa) + ParamTests(Len(fa.parameters))
             + ExceptionTests(fa) + ExternalCallTests(fa))

CalculateTargetTests(fa) ==
    CapTests(20 + ComplexityTests(fa) + FuncTypeTests(fa) + ParamTests(Len(fa.parameters))
             + ExceptionTests(fa) + ExternalCallTests(fa))

-----------------------------------------------------------------------------
(* _generate_intelligent_fallback and the per-category generators *)

\* quality_score=0.4 and quality_score=0.5
Score04 == (ScoreOne * 4) \div 10
Score05 == (ScoreOne * 5) \div 10

\* a record built without its quality_score argument, left at the default 1.0
GeneratedTestDefaultScore(code, description, test_type, expected, quality_score) ==
    [code |-> code, description |-> description, test_type |-> <<test_type>>,
     expected |-> <<expected>>, quality_score |-> ScoreOne]

GeneratedTest(code, description, test_type, expected, quality_score) ==
    [code |-> code, description |-> description, test_type |-> <<test_type>>,
     expected |-> <<expected>>, quality_score |-> quality_score]

\* the slice tests[:-1] in place of tests[:n]
TakeWithoutLast(tests, n) == SubSeq(tests, 1, Len(tests) - 1)

\* the whole list in place of the slice tests[:n]
TakeAll(tests, n) == tests

\* the slice tests[:n // 2]
TakeHalf(tests, n) == SubSeq(tests, 1, IF Len(tests) < n \div 2 THEN Len(tests) ELSE n \div 2)

\* tests[:n]
Take(tests, n) == SubSeq(tests, 1, IF Len(tests) < n THEN Len(tests) ELSE n)

RECURSIVE Join(_, _, _)
\* sep.join([item] * n), as units
Join(item, sep, n) ==
    IF n = 0 THEN <<>> ELSE IF n = 1 THEN <<item>>
    ELSE <<item, sep>> \o Join(item, sep, n - 1)

RECURSIVE JoinCount(_, _)
\* ",".join(f"({i+1})" for i in range(n)) without its first "(" and last ")"
JoinCount(i, n) ==
    IF i > n THEN <<>> ELSE IF i = n THEN <<ToString(i)>>
    ELSE <<ToString(i), "),(">> \o JoinCount(i + 1, n)

GenerateApiFallbackTests(fn, param_count) ==
    << GeneratedTest(<<"#", SP, "Assuming", SP, "client", SP, "fixture", NL, "response", SP,
                       "=", SP, "client", ".", "get", "('/", fn, "')">>,
                     <<"GET request to endpoint">>, "normal",
                     "response.status_code in [200, 201]", Score04),
       GeneratedTest(<<"response", SP, "=", SP, "client", ".", "post", "('/", fn, "',", SP,
                       "json", "={})">>,
                     <<"POST request with empty JSON">>, "boundary",
                     "response.status_code in [200, 400, 422]", Score04),
       GeneratedTest(<<"response", SP, "=", SP, "client", ".", "get", "('/", fn, "/",
                       "invalid", "')">>,
                     <<"GET with invalid path">>, "error",
                     "response.status_code in [404, 400]", Score04),
       GeneratedTest(<<"response", SP, "=", SP, "client", ".", "put", "('/", fn, "',", SP,
                       "json", "={'", "data", "'", COLON, SP, "'", "test", "'})">>,
                     <<"PUT request to endpoint">>, "normal",
                     "response.status_code in [200, 201, 204, 400, 422]", Score04),
       GeneratedTest(<<"response", SP, "=", SP, "client", ".", "delete", "('/", fn, "')">>,
                     <<"DELETE request">>, "normal",
                     "response.status_code in [200, 204, 404]", Score04) >>

GenerateContextManagerFallbackTests(fn) ==
    << GeneratedTest(<<"with", SP, fn, "()", SP, "as", SP, "resource", COLON, NL, IND,
                       "assert", SP, "resource", SP, "is", SP, "not", SP, "None">>,
                     <<"Context manager acquires resource">>, "normal", "True", Score05),
       GeneratedTest(<<"try", COLON, NL, IND, "with", SP, fn, "()", SP, "as", SP, "resource",
                       COLON, NL, IND2, "raise", SP, "ValueError", "('", "test", "')", NL,
                       "except", SP, "ValueError", COLON, NL, IND, "pass">>,
                     <<"Context manager cleans up on exception">>, "error", "True", Score05),
       GeneratedTest(<<"with", SP, fn, "()", SP, "as", SP, "r1", COLON, NL, IND, "with", SP,
                       fn, "()", SP, "as", SP, "r2", COLON, NL, IND2, "assert", SP, "r1", SP,
                       "is", SP, "not", SP, "None", SP, "and", SP, "r2", SP, "is", SP, "not",
                       SP, "None">>,
                     <<"Nested context managers">>, "edge", "True", Score05),
       GeneratedTest(<<"resource", SP, "=", SP, "None", NL, "with", SP, fn, "()", SP, "as",
                       SP, "resource", COLON, NL, IND, "pass", NL, "assert", SP, "resource",
                       SP, "is", SP, "not", SP, "None">>,
                     <<"Resource accessible after context">>, "normal", "True", Score05) >>

GenerateDbFallbackTests(fn, param_count) ==
    << GeneratedTest(<<"#", SP, "With", SP, "mock", SP, "db", NL, "result", SP, "=", SP, fn,
                       "(", "mock_db", ")">>,
                     <<"Query with valid database connection">>, "normal",
                     "result is not None", Score04),
       GeneratedTest(<<"try", COLON, NL, IND, "result", SP, "=", SP, fn, "(", "None", ")", NL,
                       "except", SP, "Exception", COLON, NL, IND, "pass">>,
                     <<"Query with None connection">>, "error", "True", Score04),
       GeneratedTest(<<"result", SP, "=", SP, fn, "(", "mock_db", ")", NL, "assert", SP,
                       "isinstance", "(", "result", ",", SP, "(", "list", ",", SP, "tuple",
                       ",", SP, "dict", ",", SP, "type", "(", "None", ")))">>,
                     <<"Query returns expected type">>, "normal", "True", Score04),
       GeneratedTest(<<"result", SP, "=", SP, fn, "(", "mock_db", ")", NL, "assert", SP,
                       "len", "(", "result", ")", SP, ">=", SP, "0", SP, "or", SP, "result",
                       SP, "is", SP, "None">>,
                     <<"Query handles empty results">>, "boundary", "True", Score04) >>

GenerateAuthFallbackTests(fn, param_count) ==
    << GeneratedTest(<<"result", SP, "=", SP, fn, "('", "user", "',", SP, "'", "pass", "')">>,
                     <<"Authentication with valid credentials">>, "normal",
                     "result is not None and result != False", Score04),
       GeneratedTest(<<"result", SP, "=", SP, fn, "('", "user", "',", SP, "'", "wrong", "')">>,
                     <<"Authentication with wrong password">>, "error",
                     "result == False or result is None", Score04),
       GeneratedTest(<<"result", SP, "=", SP, fn, "('',", SP, "'')">>,
                     <<"Authentication with empty credentials">>, "boundary",
                     "result == False or result is None", Score04),
       GeneratedTest(<<"result", SP, "=", SP, fn, "('", "nonexistent", "',", SP, "'", "pass",
                       "')">>,
                     <<"Authentication with nonexistent user">>, "error",
                     "result == False or result is None", Score04),
       GeneratedTest(<<"try", COLON, NL, IND, "result", SP, "=", SP, fn, "(", "None", ",", SP,
                       "None", ")", NL, "except", SP, "TypeError", COLON, NL, IND, "pass">>,
                     <<"Authentication handles None inputs">>, "error", "True", Score04) >>

\* the call of the return-type probes: fn(1) with parameters, fn() without
TypeProbeCode(fn, param_count) ==
    IF param_count > 0 THEN <<"result", SP, "=", SP, fn, "(", "1", ")">>
    ELSE <<"result", SP, "=", SP, fn, "()">>

\* the argument units of test_vals[:5]
TestVals == << <<"(", "5", ")">>, <<"(", "0", ")">>, <<"(-", "1", ")">>,
               <<"('", "test", "')">>, <<"(", "None", ")">>, <<"([])">> >>
TestValNames == <<"5", "0", "-1", "'test'", "None", "[]">>

GenerateUtilityFallbackTests(fn, param_count, param_types, return_type) ==
    LET call == <<"result", SP, "=", SP, fn>>
        by_params ==
            IF param_count = 0 THEN
                << GeneratedTest(call \o <<"()">>, <<"Function call with no parameters">>,
                                 "normal", "result is not None or result is None", Score04),
                   GeneratedTest(<<"result1", SP, "=", SP, fn, "()", NL, "result2", SP, "=",
                                   SP, fn, "()", NL, "assert", SP, "result1", SP, "==", SP,
                                   "result2">>,
                                 <<"Multiple calls produce consistent results">>,
                                 "normal", "True", Score04) >>
            ELSE IF param_count = 1 THEN
                [i \in 1..5 |->
                    GeneratedTest(call \o TestVals[i],
                                  <<"Function call with ", TestValNames[i]>>,
                                  "normal", "result is not None or result is None", Score04)]
            ELSE
                << GeneratedTest(call \o <<"(">> \o Join("5", ",", param_count) \o <<")">>,
                                 <<"Function call with ", ToString(param_count),
                                   " numeric parameters">>,
                                 "normal", "result is not None", Score04),
                   GeneratedTest(call \o <<"(">> \o Join("0", ",", param_count) \o <<")">>,
                                 <<"Function call with all zeros">>,
                                 "boundary", "result is not None or result == 0", Score04),
                   GeneratedTest(call \o <<"(-">> \o Join("1", ",-", param_count) \o <<")">>,
                                 <<"Function call with negative parameters">>,
                                 "edge", "result is not None", Score04),
                   GeneratedTest(call \o <<"((">> \o JoinCount(1, param_count) \o <<"))">>,
                                 <<"Function call with sequential parameters">>,
                                 "normal", "result is not None", Score04) >>
        rt == [i \in 1..Len(return_type) |-> Lower(return_type[i])]
        bool_probe ==
            IF Contains(rt, "bool")
            THEN <<GeneratedTest(TypeProbeCode(fn, param_count), <<"Returns boolean value">>,
                                 "normal", "isinstance(result, bool)", Score04)>>
            ELSE <<>>
        str_probe ==
            IF Contains(rt, "str")
            THEN <<GeneratedTest(TypeProbeCode(fn, param_count), <<"Returns string value">>,
                                 "normal", "isinstance(result, str) or result is None",
                                 Score04)>>
            ELSE <<>>
        num_probe ==
            IF Contains(rt, "int") \/ Contains(rt, "float")
            THEN <<GeneratedTest(TypeProbeCode(fn, param_count), <<"Returns numeric value">>,
                                 "normal",
                                 "isinstance(result, (int, float)) or result is None",
                                 Score04)>>
            ELSE <<>>
    IN Take(by_params \o bool_probe \o str_probe \o num_probe, 20)

\* the local helper get_test_values of lines 775-791, which no line calls; a
\* parameter's type is "" when it has no annotation
GetTestValues(param_type) ==
    IF param_type = "" THEN <<"5", "0", "-1", "None", "'string'", "[]", "{}">>
    ELSE IF param_type \in {"int", "float"}
         THEN <<"5", "0", "-1", "1", "100", "0.5", "-0.5">>
    ELSE IF param_type = "str" THEN <<"'test'", "''", "'a'", "' '", "'123'">>
    ELSE IF param_type = "bool" THEN <<"True", "False">>
    ELSE IF param_type \in {"list", "array"} THEN <<"[1,2,3]", "[]", "[0]", "['a','b']">>
    ELSE IF param_type = "dict" THEN <<"{}", "{'key':'value'}", "{'a':1}">>
    ELSE <<"None", "'value'", "1">>

GenerateIntelligentFallback(fa) ==
    LET fn == fa.name
        param_count == Len(fa.parameters)
        return_type == IF fa.return_type # <<>> THEN fa.return_type ELSE <<"unknown">>
        raises == fa.raises_exceptions
        by_type ==
            IF fa.func_type = "api_endpoint" THEN GenerateApiFallbackTests(fn, param_count)
            ELSE IF fa.func_type = "context_manager"
                 THEN GenerateContextManagerFallbackTests(fn)
            ELSE IF fa.func_type = "db_function" THEN GenerateDbFallbackTests(fn, param_count)
            ELSE IF fa.func_type = "auth_function"
                 THEN GenerateAuthFallbackTests(fn, param_count)
            ELSE GenerateUtilityFallbackTests(fn, param_count, fa.parameters, return_type)
        exc_tests ==
            [i \in 1..Len(Take(raises, 3)) |->
                GeneratedTest(<<"try", COLON, NL, IND, "result", SP, "=", SP, fn, "(", "None",
                                ")", NL, "except", SP, raises[i], COLON, NL, IND, "pass">>,
                              <<"Handles ", raises[i], " exception">>, "error", "True",
                              Score05)]
        gen_tests ==
            IF fa.is_generator
            THEN <<GeneratedTest(<<"for", SP, "item", SP, "in", SP, fn, "(", "None", ")",
                                   COLON, NL, IND, "pass">>,
                                 <<"Generator yields items">>, "normal",
                                 "iteration_successful", Score05)>>
            ELSE <<>>
        async_tests ==
            IF fa.is_async
            THEN <<GeneratedTest(<<"import", SP, "asyncio", NL, "asyncio", ".", "run", "(",
                                   "await", SP, fn, "(", "None", "))">>,
                                 <<"Async function executes">>, "normal",
                                 "completed_successfully", Score05)>>
            ELSE <<>>
    IN Take(by_type \o exc_tests \o gen_tests \o async_tests, 20)

-----------------------------------------------------------------------------
(* Completion backend and LocalLLMClient.generate *)

MaxGen == 16

\* one well-formed block asking for f(k)
GenBlock(k) ==
    <<"[TEST 1]", NL, "CODE", COLON, SP, "f", "(", ToString(k), ")", NL,
      "EXPECTED", COLON, SP, ToString(k), NL>>

RECURSIVE GenText(_, _)
\* a completion with the blocks for f(a+1) .. f(a+n)
GenText(a, n) == IF n = 0 THEN <<>> ELSE GenText(a, n - 1) \o GenBlock(a + n)

\* a completion that repeats a code inside itself, repeats the code of the first
\* fallback probe of a parameterless utility function, and holds an incomplete block
DupText ==
    <<"Here", SP, "are", SP, "tests", COLON, NL,
      "[TEST 1]", NL, "type", COLON, SP, "EDGE", NL, "code", COLON, SP, "f", "(", "1", ")", NL,
      "expected", COLON, SP, "first", NL, "description", COLON, SP, "first", NL,
      "[TEST 2]", NL, "CODE", COLON, SP, "f", "(", "1", ")", NL,
      "EXPECTED", COLON, SP, "second", NL,
      "[test 3]", NL, "CODE", COLON, SP, "result", SP, "=", SP, "f", "()", NL,
      "EXPECTED", COLON, SP, "third", NL,
      "[TEST 1]", NL, "CODE", COLON, SP, "f", "(", "2", ")", NL, NL>>

\* the sizes of the generated completions: none, one, and the sizes at and next to
\* the thresholds the orchestrator compares against (10, and 15 or 16 for the
\* targets 20 to 22)
GenSizes == {n \in 0..MaxGen : n <= 1 \/ (n >= 9 /\ n <= 11) \/ n >= 14}

RECURSIVE GenOutcomes(_)
GenOutcomes(n) ==
    IF n < 0 THEN <<>>
    ELSE GenOutcomes(n - 1)
         \o (IF n \in GenSizes THEN <<[kind |-> "ok", text |-> GenText(0, n)]>> ELSE <<>>)

\* what one POST to /api/generate can come to
OutcomeSeq ==
    <<[kind |-> "connection_error"], [kind |-> "bad_status"], [kind |-> "non_text"]>>
    \o GenOutcomes(MaxGen)
    \o <<[kind |-> "ok", text |-> GenText(5, 5)], [kind |-> "ok", text |-> GenText(8, 4)],
         [kind |-> "ok", text |-> ExampleText], [kind |-> "ok", text |-> DupText]>>

Outcomes == 1..Len(OutcomeSeq)

\* LocalLLMClient.generate: the text returned, or the exception raised
Generate(o) ==
    IF o.kind = "connection_error"
    THEN [exc |-> "Exception", msg |-> "Cannot connect to Ollama"]
    ELSE IF o.kind = "bad_status"
    THEN [exc |-> "Exception", msg |-> "LLM generation failed: API error"]
    ELSE [exc |-> "", value |-> o]

\* an except clause that catches nothing
CatchNothing(exc) == FALSE

\* `except Exception` catches Exception and its subclasses
ExceptException(exc) == exc \in {"Exception", "TypeError", "ValueError"}

\* _parse_ai_response on what generate returned: re.findall raises TypeError on a
\* response that is not text
ParseReturned(value, func_name) ==
    IF value.kind = "non_text" THEN [exc |-> "TypeError", tests |-> <<>>]
    ELSE [exc |-> "", tests |-> ParseAiResponse(value.text, func_name)]

\* the try body of an attempt: generate, then _parse_ai_response
BodyAfter(g, func_name) ==
    IF g.exc # "" THEN [exc |-> g.exc, tests |-> <<>>]
    ELSE ParseReturned(g.value, func_name)

AttemptBody(o, func_name) == BodyAfter(Generate(o), func_name)

\* an except clause that logs the failure and raises it again
HandleReraises(b) == [escaped |-> b.exc # "", tests |-> b.tests]

\* the except clause of an attempt, given what the try body did: [escaped, tests]
Handle(b) ==
    IF b.exc = "" THEN [escaped |-> FALSE, tests |-> b.tests]
    ELSE IF ExceptException(b.exc) THEN [escaped |-> FALSE, tests |-> <<>>]
    ELSE [escaped |-> TRUE, tests |-> <<>>]

\* the whole try statement of an attempt
TryAttempt(o, func_name) == Handle(AttemptBody(o, func_name))

RECURSIVE TabulateAttempts(_)
TabulateAttempts(n) ==
    IF n = 0 THEN <<>>
    ELSE Append(TabulateAttempts(n - 1), TryAttempt(OutcomeSeq[n], "f"))

\* TryAttempt of every outcome, for the function name "f" all profiles carry
AttemptTable == TabulateAttempts(Len(OutcomeSeq))

-----------------------------------------------------------------------------
(* AITestCaseGenerator._generate_ai_tests *)

\* a merge that appends every record, seen or not
MergeWithoutSeen(all, seen, tests) ==
    [all_tests |-> all \o tests,
     seen_codes |-> seen \cup {tests[i].code : i \in 1..Len(tests)}]

RECURSIVE MergeKeepLast(_, _, _)
\* a merge in which a record whose code was seen takes the place of the earlier one
MergeKeepLast(all, seen, tests) ==
    IF tests = <<>> THEN [all_tests |-> all, seen_codes |-> seen]
    ELSE IF Head(tests).code \notin seen
         THEN MergeKeepLast(Append(all, Head(tests)), seen \cup {Head(tests).code},
                            Tail(tests))
         ELSE MergeKeepLast([i \in 1..Len(all) |->
                                IF all[i].code = Head(tests).code THEN Head(tests)
                                ELSE all[i]],
                            seen, Tail(tests))

RECURSIVE MergeSeenNotUpdated(_, _, _)
\* a merge that tests seen_codes but never adds to it
MergeSeenNotUpdated(all, seen, tests) ==
    IF tests = <<>> THEN [all_tests |-> all, seen_codes |-> seen]
    ELSE IF Head(tests).code \notin seen
         THEN MergeSeenNotUpdated(Append(all, Head(tests)), seen, Tail(tests))
         ELSE MergeSeenNotUpdated(all, seen, Tail(tests))

RECURSIVE MergeTests(_, _, _)
\* for t in tests: if t.code not in seen_codes: seen_codes.add(t.code); all_tests.append(t)
MergeTests(all, seen, tests) ==
    IF tests = <<>> THEN [all_tests |-> all, seen_codes |-> seen]
    ELSE LET t == Head(tests)
         IN IF t.code \notin seen
            THEN MergeTests(Append(all, t), seen \cup {t.code}, Tail(tests))
            ELSE MergeTests(all, seen, Tail(tests))

\* a quarter of the target where three quarters are meant
QuarterOfTarget(t) == (t * 25) \div 100

\* int(target_tests * 0.75) and int(target_tests * 0.5)
Threshold2(t) == (t * 75) \div 100
Threshold3(t) == (t * 50) \div 100

FallbackFloor == 10

\* a floor that a set of exactly FallbackFloor records does not clear
AtMostFloor(n) == n <= FallbackFloor

\* the condition of line 497
NeedsFallback(n) == n < FallbackFloor

\* the profiles the orchestrator is explored on: every return type of a simple
\* parameterless utility function, the targets 20, 21 and 22, and one or more
\* profiles for each branch of the fallback generator
OrchProfiles ==
    {PlainProfile(rt) : rt \in ReturnTypes}
    \cup {MakeProfile("simple", "utility", 0, "", <<>>, FALSE, FALSE, 0, 1),
          MakeProfile("simple", "utility", 1, "int", <<"int">>, FALSE, FALSE, 0, 0),
          MakeProfile("moderate", "utility", 2, "", <<"bool">>, TRUE, FALSE, 1, 0),
          MakeProfile("simple", "api_endpoint", 1, "", <<>>, TRUE, TRUE, 0, 0),
          MakeProfile("simple", "context_manager", 0, "", <<>>, FALSE, TRUE, 0, 0),
          MakeProfile("moderate", "db_function", 1, "", <<"list">>, FALSE, FALSE, 2, 1),
          MakeProfile("simple", "auth_function", 2, "str", <<"bool">>, FALSE, FALSE, 0, 0),
          MakeProfile("simple", "property", 1, "", <<"str">>, FALSE, FALSE, 0, 0),
          MakeProfile("complex", "utility", MaxParams, "", <<"numeric">>, FALSE, FALSE,
                      MaxRaises, MaxExtraCalls)}

\* the locals of _generate_ai_tests before its first statement
OrchIdle ==
    /\ target_tests = 0
    /\ all_tests = <<>>
    /\ seen_codes = {}
    /\ final = <<>>
    /\ raised = FALSE
    /\ issued = <<>>
    /\ steps = <<>>
    /\ fallback_called = FALSE

\* the pure-function harnesses before a call
ParseIdle == response = <<>> /\ parsed = <<>>
ScoreIdle == test_data = NoneData /\ quality = 0
FallbackIdle == fallback_tests = <<>>

\* the state of run before it is called, with an empty report map
RunIdle ==
    /\ user_code = [valid |-> TRUE, functions |-> <<>>]
    /\ functions = <<>>
    /\ func_idx = 0
    /\ reports = {}
    /\ emitted = <<>>
    /\ requests = 0
    /\ fallback_calls = 0
    /\ args = [save_tests |-> FALSE, json |-> FALSE, no_pdf |-> FALSE]
    /\ saved = {}

runstate == <<user_code, functions, func_idx, reports, emitted, requests, fallback_calls,
              args, saved>>

Init ==
    /\ func_analysis \in OrchProfiles
    /\ pc = "start"
    /\ OrchIdle
    /\ ParseIdle
    /\ ScoreIdle
    /\ FallbackIdle
    /\ RunIdle

harness == <<response, parsed, test_data, quality, fallback_tests>>

\* lines 440-441
Start ==
    /\ pc = "start"
    /\ target_tests' = CalculateTargetTests(func_analysis)
    /\ pc' = "attempt1"
    /\ UNCHANGED <<func_analysis, all_tests, seen_codes, final, raised, issued, steps,
                   fallback_called, harness, runstate>>

\* the running set after the records r.tests are merged into it
Merged(r) == MergeTests(all_tests, seen_codes, r.tests)

\* the state after an attempt whose try statement came to r
AfterAttempt(step, temperature, next, o, r) ==
    /\ issued' = Append(issued, temperature)
    /\ steps' = Append(steps, [step |-> step, ran |-> TRUE, outcome |-> o,
                               before |-> Len(all_tests),
                               after |-> Len(Merged(r).all_tests)])
    /\ raised' = r.escaped
    /\ pc' = IF r.escaped THEN "done" ELSE next
    /\ all_tests' = Merged(r).all_tests
    /\ seen_codes' = Merged(r).seen_codes
    /\ UNCHANGED <<func_analysis, target_tests, final, fallback_called, harness, runstate>>

\* one attempt: the request is issued, its completion parsed and merged
RunAttempt(step, temperature, next, o) ==
    AfterAttempt(step, temperature, next, o, AttemptTable[o])

SkipStep(step, next) ==
    /\ steps' = Append(steps, [step |-> step, ran |-> FALSE, outcome |-> 0,
                               before |-> Len(all_tests), after |-> Len(all_tests)])
    /\ pc' = next
    /\ UNCHANGED <<func_analysis, target_tests, all_tests, seen_codes, final, raised,
                   issued, fallback_called, harness, runstate>>

\* lines 443-461
Attempt1 ==
    /\ pc = "attempt1"
    /\ \E o \in Outcomes : RunAttempt("attempt1", "0.7", "attempt2", o)

\* lines 463-478
Attempt2 ==
    /\ pc = "attempt2"
    /\ Len(all_tests) < Threshold2(target_tests)
    /\ \E o \in Outcomes : RunAttempt("attempt2", "0.8", "attempt3", o)

Skip2 ==
    /\ pc = "attempt2"
    /\ ~(Len(all_tests) < Threshold2(target_tests))
    /\ SkipStep("attempt2", "attempt3")

\* lines 480-494
Attempt3 ==
    /\ pc = "attempt3"
    /\ Len(all_tests) < Threshold3(target_tests)
    /\ \E o \in Outcomes : RunAttempt("attempt3", "0.9", "fallback", o)

Skip3 ==
    /\ pc = "attempt3"
    /\ ~(Len(all_tests) < Threshold3(target_tests))
    /\ SkipStep("attempt3", "fallback")

MergeFallback(fallback) == MergeTests(all_tests, seen_codes, fallback)

\* lines 496-503
Fallback ==
    /\ pc = "fallback"
    /\ NeedsFallback(Len(all_tests))
    /\ steps' = Append(steps,
           [step |-> "fallback", ran |-> TRUE, outcome |-> 0, before |-> Len(all_tests),
            after |-> Len(MergeFallback(GenerateIntelligentFallback(func_analysis)).all_tests)])
    /\ all_tests' = MergeFallback(GenerateIntelligentFallback(func_analysis)).all_tests
    /\ seen_codes' = MergeFallback(GenerateIntelligentFallback(func_analysis)).seen_codes
    /\ fallback_called' = TRUE
    /\ pc' = "final"
    /\ UNCHANGED <<func_analysis, target_tests, final, raised, issued, harness, runstate>>

SkipFallback ==
    /\ pc = "fallback"
    /\ ~NeedsFallback(Len(all_tests))
    /\ SkipStep("fallback", "final")

\* lines 505-514
Finalize ==
    /\ pc = "final"
    /\ final' = MergeTests(<<>>, {}, all_tests).all_tests
    /\ pc' = "done"
    /\ UNCHANGED <<func_analysis, target_tests, all_tests, seen_codes, raised, issued,
                   steps, fallback_called, harness, runstate>>

Next ==
    \/ Start
    \/ Attempt1
    \/ Attempt2
    \/ Skip2
    \/ Attempt3
    \/ Skip3
    \/ Fallback
    \/ SkipFallback
    \/ Finalize

Spec == Init /\ [][Next]_vars

-----------------------------------------------------------------------------
(* _calculate_target_tests called on its own *)

\* profiles up to MaxTargetParams parameters, so that the cap of 100 is reached
TargetProfiles ==
    {fa \in {MakeProfile(cx, ft, n, "", <<>>, FALSE, gen, r, x) :
                cx \in Complexities, ft \in FuncTypes, n \in 0..MaxTargetParams,
                gen \in BOOLEAN, r \in 0..MaxRaises, x \in 0..MaxExtraCalls} :
        Analyzable(fa)}

InitTarget ==
    /\ func_analysis \in TargetProfiles
    /\ pc = "target"
    /\ OrchIdle
    /\ ParseIdle
    /\ ScoreIdle
    /\ FallbackIdle
    /\ RunIdle

CalculateTarget ==
    /\ pc = "target"
    /\ target_tests' = CalculateTargetTests(func_analysis)
    /\ pc' = "targeted"
    /\ UNCHANGED <<func_analysis, all_tests, seen_codes, final, raised, issued, steps,
                   fallback_called, harness, runstate>>

NextTarget == CalculateTarget

SpecTarget == InitTarget /\ [][NextTarget]_vars

-----------------------------------------------------------------------------
(* _parse_ai_response called on its own *)

MaxBlocks == 2

\* what may follow a tag: well-formed blocks, blocks that lack a field or leave it
\* blank, lower-case and same-line labels, prose, a value cut at a `word:` line, a
\* description followed by a bracket that is no tag, and nothing at all
BlockBodies ==
    << <<NL, "TYPE", COLON, SP, "Boundary", NL, "CODE", COLON, SP, "f", "(", "0", ")", NL,
         "EXPECTED", COLON, SP, "0", NL, "DESCRIPTION", COLON, SP, "zero", SP, "test", NL>>,
       <<NL, "CODE", COLON, SP, "f", "(", "1", ")", NL>>,
       <<NL, "EXPECTED", COLON, SP, "1", NL>>,
       <<NL, "CODE", COLON, NL, "EXPECTED", COLON, SP, "1", NL>>,
       <<NL, "CODE", COLON, SP, "f", "(", "2", ")", NL, "EXPECTED", COLON, NL>>,
       <<NL, "type", COLON, SP, "EDGE", NL, "code", COLON, SP, "assert", SP, "f", "(", "3",
         ")", NL, "expected", COLON, SP, "True", NL>>,
       <<SP, "CODE", COLON, SP, "f", "(", "4", ")", SP, "EXPECTED", COLON, SP, "4", SP>>,
       <<SP, "no", SP, "fields", SP, "here", NL>>,
       <<NL, "CODE", COLON, SP, "if", SP, "x", COLON, NL, IND, "f", "(", "5", ")", NL,
         "else", COLON, NL, IND, "f", "(", "6", ")", NL, "EXPECTED", COLON, SP, "5", NL>>,
       <<NL, "CODE", SP, COLON, IND, "f", "()", NL, "EXPECTED", COLON, SP, "7", NL,
         "DESCRIPTION", COLON, SP, "a", NL, "[TEST x]", SP, "b", NL>>,
       <<>> >>

TagSeq == <<"[TEST 1]", "[TEST 2]", "[test 3]">>

RECURSIVE TextsOf(_)
\* the completions of exactly n blocks
TextsOf(n) ==
    IF n = 0 THEN {<<>>, <<"Here", SP, "are", SP, "tests", COLON, NL>>}
    ELSE {t \o <<TagSeq[((n - 1) % 3) + 1]>> \o BlockBodies[b] :
             t \in TextsOf(n - 1), b \in 1..Len(BlockBodies)}

ParseTexts == UNION {TextsOf(n) : n \in 0..MaxBlocks} \cup {ExampleText, DupText}

InitParse ==
    /\ func_analysis = PlainProfile(<<>>)
    /\ pc = "parse"
    /\ response \in ParseTexts
    /\ parsed = <<>>
    /\ OrchIdle
    /\ ScoreIdle
    /\ FallbackIdle
    /\ RunIdle

Parse ==
    /\ pc = "parse"
    /\ parsed' = ParseAiResponse(response, func_analysis.name)
    /\ pc' = "parsed"
    /\ UNCHANGED <<func_analysis, target_tests, all_tests, seen_codes, final, raised,
                   issued, steps, fallback_called, response, test_data, quality,
                   fallback_tests, runstate>>

NextParse == Parse

SpecParse == InitParse /\ [][NextParse]_vars

-----------------------------------------------------------------------------
(* _score_test_quality called on its own, and together with the orchestrator *)

\* paddings of 0, 1, 4, 24, 25, 54 and 55 characters
Pads == {<<>>, <<"x">>, <<"xxxx">>,
         <<"xxxxxxxxxxxxxxxxxxxxxxxx">>,
         <<"xxxxxxxxxxxxxxxxxxxxxxxxx">>,
         <<"xxxxxxxxxxxxxxxxxxxxxxxxxxxxxxxxxxxxxxxxxxxxxxxxxxxxxx">>,
         <<"xxxxxxxxxxxxxxxxxxxxxxxxxxxxxxxxxxxxxxxxxxxxxxxxxxxxxxx">>}

\* codes with and without the function name and an assert, of every length class
ScoreCodes ==
    {name \o assertion \o pad :
        name \in {<<>>, <<"f">>, <<"g">>},
        assertion \in {<<>>, <<"assert">>, <<"Assert">>},
        pad \in Pads}

\* the dicts _score_test_quality may be given: any code, with or without expected
ScoreInputs ==
    {[is_none |-> FALSE, type |-> <<"normal">>, code |-> c, has_expected |-> e # <<>>,
      expected |-> e, has_description |-> FALSE, description |-> <<>>] :
        c \in ScoreCodes, e \in {<<>>, <<"1">>}}

InitScore ==
    /\ func_analysis = PlainProfile(<<>>)
    /\ pc = "score"
    /\ test_data \in ScoreInputs
    /\ quality = 0
    /\ OrchIdle
    /\ ParseIdle
    /\ FallbackIdle
    /\ RunIdle

Score ==
    /\ pc = "score"
    /\ quality' = ScoreTestQuality(test_data, func_analysis.name)
    /\ pc' = "scored"
    /\ UNCHANGED <<func_analysis, target_tests, all_tests, seen_codes, final, raised,
                   issued, steps, fallback_called, response, parsed, test_data,
                   fallback_tests, runstate>>

\* the scorer on its own inputs, and inside _generate_ai_tests
InitQuality == Init \/ InitScore

NextQuality == Next \/ Score

SpecQuality == InitQuality /\ [][NextQuality]_vars

-----------------------------------------------------------------------------
(* _generate_intelligent_fallback called on its own *)

\* profiles of every category, parameter count, return type and flag
FallbackProfiles ==
    {fa \in {MakeProfile(cx, ft, n, "", rt, asy, gen, r, x) :
                cx \in {"simple", "complex"}, ft \in FuncTypes, n \in 0..MaxParams,
                rt \in ReturnTypes, asy \in BOOLEAN, gen \in BOOLEAN,
                r \in 0..MaxRaises, x \in 0..MaxExtraCalls}
           \cup {MakeProfile("simple", "utility", 1, pt, <<>>, FALSE, FALSE, 0, 0) :
                    pt \in {"int", "float", "str", "bool", "list", "dict", "Any"}}
           \cup {MakeProfile("complex", "utility", 1, "", <<"bool", ",", "str", ",", "int">>,
                              asy, FALSE, r, 0) :
                    asy \in BOOLEAN, r \in 0..MaxRaises} :
        Analyzable(fa)}

InitFallback ==
    /\ func_analysis \in FallbackProfiles
    /\ pc = "generate"
    /\ OrchIdle
    /\ ParseIdle
    /\ ScoreIdle
    /\ FallbackIdle
    /\ RunIdle

GenerateFallback ==
    /\ pc = "generate"
    /\ fallback_tests' = GenerateIntelligentFallback(func_analysis)
    /\ pc' = "generated"
    /\ UNCHANGED <<func_analysis, target_tests, all_tests, seen_codes, final, raised,
                   issued, steps, fallback_called, response, parsed, test_data, quality,
                   runstate>>

NextFallback == GenerateFallback

SpecFallback == InitFallback /\ [][NextFallback]_vars

-----------------------------------------------------------------------------
(* EnhancedCodeAnalyzer._determine_function_type *)

MaxDecorators == 2

RECURSIVE JoinUnits(_)
\* ' '.join(decorators), the names given as units
JoinUnits(names) ==
    IF names = <<>> THEN <<>>
    ELSE IF Len(names) = 1 THEN names[1]
    ELSE names[1] \o <<SP>> \o JoinUnits(Tail(names))

\* the chain with the property test moved before the two tests of the name
PropertyBeforeNames(decorators, is_generator, name) ==
    IF \E d \in {"get", "post", "put", "delete", "patch", "router"} :
          ContainsLower(JoinUnits(decorators), d)
    THEN "api_endpoint"
    ELSE IF ContainsLower(JoinUnits(decorators), "contextmanager") \/ is_generator
    THEN "context_manager"
    ELSE IF ContainsLower(JoinUnits(decorators), "property") THEN "property"
    ELSE IF \E term \in {"db_", "query", "fetch", "create_session"} :
          ContainsLower(name, term)
    THEN "db_function"
    ELSE IF \E term \in {"auth", "login", "verify", "authenticate"} :
          ContainsLower(name, term)
    THEN "auth_function"
    ELSE "utility"

\* lines 111-130
DetermineFunctionType(decorators, is_generator, name) ==
    IF \E d \in {"get", "post", "put", "delete", "patch", "router"} :
          ContainsLower(JoinUnits(decorators), d)
    THEN "api_endpoint"
    ELSE IF ContainsLower(JoinUnits(decorators), "contextmanager") \/ is_generator
    THEN "context_manager"
    ELSE IF \E term \in {"db_", "query", "fetch", "create_session"} :
          ContainsLower(name, term)
    THEN "db_function"
    ELSE IF \E term \in {"auth", "login", "verify", "authenticate"} :
          ContainsLower(name, term)
    THEN "auth_function"
    ELSE IF ContainsLower(JoinUnits(decorators), "property") THEN "property"
    ELSE "utility"

\* a function definition as _analyze_function reads it at lines 82-87: its name and
\* its decorator names as units, and whether its body yields; func_type is not set
InitCategory ==
    /\ pc = "determine"
    /\ func_analysis \in
          [name : {<<"compute">>, <<"fetch", "_", "user">>, <<"db_", "init">>, <<"Login">>,
                   <<"verify", "_", "token">>, <<"query", "_", "auth">>,
                   <<"get", "_", "item">>},
           decorators : UNION {[1..n -> {<<"app", ".", "get">>, <<"Router", ".", "post">>,
                                         <<"contextmanager">>, <<"property">>,
                                         <<"staticmethod">>,
                                         <<"login", "_", "required">>}] :
                                  n \in 0..MaxDecorators},
           is_generator : BOOLEAN,
           func_type : {""}]
    /\ OrchIdle
    /\ ParseIdle
    /\ ScoreIdle
    /\ FallbackIdle
    /\ RunIdle

\* line 87
Determine ==
    /\ pc = "determine"
    /\ func_analysis' =
          [func_analysis EXCEPT !.func_type =
              DetermineFunctionType(func_analysis.decorators, func_analysis.is_generator,
                                    func_analysis.name)]
    /\ pc' = "determined"
    /\ UNCHANGED <<target_tests, all_tests, seen_codes, final, raised, issued, steps,
                   fallback_called, harness, runstate>>

NextCategory == Determine

SpecCategory == InitCategory /\ [][NextCategory]_vars

-----------------------------------------------------------------------------
(* AITestCaseGenerator.run, iterated to its end *)

MaxFunctions == 2

\* what the three requests of one function come to in a run: no connection, a
\* completion of ten blocks, and the completion that repeats codes
RunOutcomes ==
    {o \in Outcomes :
        \/ OutcomeSeq[o].kind = "connection_error"
        \/ (OutcomeSeq[o].kind = "ok" /\ OutcomeSeq[o].text \in {GenText(0, 10), DupText})}

\* a request is issued and what its completion parses to is merged into r, the
\* running set and the counts of one call of _generate_ai_tests (lines 446-461)
MergeAttempt(r, tests) ==
    [all_tests |-> MergeTests(r.all_tests, r.seen_codes, tests).all_tests,
     seen_codes |-> MergeTests(r.all_tests, r.seen_codes, tests).seen_codes,
     requests |-> r.requests + 1,
     fallback_called |-> r.fallback_called]

FirstAttempt(fa, o) ==
    MergeAttempt([all_tests |-> <<>>, seen_codes |-> {}, requests |-> 0,
                  fallback_called |-> FALSE],
                 TryAttempt(OutcomeSeq[o], fa.name).tests)

\* lines 463-478
SecondAttempt(r, fa, o) ==
    IF Len(r.all_tests) < Threshold2(CalculateTargetTests(fa))
    THEN MergeAttempt(r, TryAttempt(OutcomeSeq[o], fa.name).tests)
    ELSE r

\* lines 480-494
ThirdAttempt(r, fa, o) ==
    IF Len(r.all_tests) < Threshold3(CalculateTargetTests(fa))
    THEN MergeAttempt(r, TryAttempt(OutcomeSeq[o], fa.name).tests)
    ELSE r

\* the call without its last resort
NoLastResort(r, fa) == r

\* lines 496-503
LastResort(r, fa) ==
    IF NeedsFallback(Len(r.all_tests))
    THEN [all_tests |-> MergeTests(r.all_tests, r.seen_codes,
                                   GenerateIntelligentFallback(fa)).all_tests,
          seen_codes |-> MergeTests(r.all_tests, r.seen_codes,
                                    GenerateIntelligentFallback(fa)).seen_codes,
          requests |-> r.requests,
          fallback_called |-> TRUE]
    ELSE r

\* lines 505-514: what the call returns, with what it issued on the way
Returned(r) ==
    [exc |-> "", tests |-> MergeTests(<<>>, {}, r.all_tests).all_tests,
     requests |-> r.requests, fallback_called |-> r.fallback_called]

\* _generate_ai_tests as a function of the profile and of what its requests come to
GenerateAiTests(fa, o1, o2, o3) ==
    Returned(LastResort(ThirdAttempt(SecondAttempt(FirstAttempt(fa, o1), fa, o2), fa, o3),
                        fa))

\* what the call of line 392 can come to for one function: it raises before its
\* first request, or it returns
GenerationResults(fa) ==
    {[exc |-> "Exception", tests |-> <<>>, requests |-> 0, fallback_called |-> FALSE]}
    \cup {GenerateAiTests(fa, o1, o2, o3) : o1 \in RunOutcomes, o2 \in RunOutcomes,
                                            o3 \in RunOutcomes}

\* func_name.startswith('_')
\* no name counts as private
NeverPrivate(name) == FALSE

IsPrivate(name) == name \in {"_h"}

\* the functions a source text may define, each under its own name
Named(fa, name) == [fa EXCEPT !.name = name]
RunFunctions ==
    {Named(PlainProfile(<<"bool">>), "f"),
     Named(MakeProfile("simple", "utility", 1, "int", <<"int">>, FALSE, FALSE, 0, 0), "g"),
     Named(PlainProfile(<<>>), "_h")}

RECURSIVE FunctionMaps(_)
\* the analysis maps of n functions: sequences of profiles with distinct names
FunctionMaps(n) ==
    IF n = 0 THEN {<<>>}
    ELSE {Append(m, fa) : m \in FunctionMaps(n - 1),
                          fa \in RunFunctions}

\* source texts: what ast.parse makes of them, and the functions their defs hold
RunCodes ==
    {[valid |-> v, functions |-> m] :
        v \in BOOLEAN,
        m \in {x \in UNION {FunctionMaps(n) : n \in 0..MaxFunctions} :
                  \A i, j \in 1..Len(x) : i # j => x[i].name # x[j].name}}

\* an entry left in self.reports by an earlier run
StaleReports ==
    {[func_name |-> "old", analysis |-> Named(PlainProfile(<<>>), "old"),
      tests |-> GenerateIntelligentFallback(Named(PlainProfile(<<>>), "old"))]}

\* analyze with the check of the syntax left out
AnalyzeUnchecked(source) == [exc |-> "", functions |-> source.functions]

\* EnhancedCodeAnalyzer.analyze: the analysis map, or the ValueError of line 69
Analyze(source) ==
    IF source.valid THEN [exc |-> "", functions |-> source.functions]
    ELSE [exc |-> "ValueError", functions |-> <<>>]

\* a handler that names the analyzer's error only
CatchesValueError(exc) == exc = "ValueError"

\* the `except Exception` of lines 350 and 427
RunCatches(exc) == ExceptException(exc)

\* the status decided by the truth value of the score: any score but 0.0 passes
PassedIfScored(test) == IF test.quality_score # 0 THEN "passed" ELSE "failed"

\* 'passed' if test.quality_score > 0.7 else 'failed', line 412
TestStatus(test) == IF test.quality_score * 10 > 7 * ScoreOne THEN "passed" ELSE "failed"

\* the dicts yielded at lines 407-416 for the tests of one function
TestItems(name, tests) ==
    [i \in 1..Len(tests) |->
        [kind |-> "test", func_name |-> name, test |-> tests[i],
         status |-> TestStatus(tests[i])]]

Message(kind, name) == [kind |-> kind, func_name |-> name]

\* self.reports[func_name] = {...}, lines 418-421
PutReport(entries, fa, tests) ==
    {e \in entries : e.func_name # fa.name}
    \cup {[func_name |-> fa.name, analysis |-> fa, tests |-> tests]}

InitRun ==
    /\ pc = "run"
    /\ func_analysis = PlainProfile(<<>>)
    /\ user_code \in RunCodes
    /\ reports \in {{}, StaleReports}
    /\ functions = <<>>
    /\ func_idx = 0
    /\ emitted = <<>>
    /\ requests = 0
    /\ fallback_calls = 0
    /\ args = [save_tests |-> FALSE, json |-> FALSE, no_pdf |-> FALSE]
    /\ saved = {}
    /\ OrchIdle
    /\ ParseIdle
    /\ ScoreIdle
    /\ FallbackIdle

orchstate == <<func_analysis, target_tests, all_tests, seen_codes, final, raised, issued,
               steps, fallback_called>>

\* lines 348-353: analysis fails, the failure is reported and run returns
AnalysisFails ==
    /\ pc = "run"
    /\ Analyze(user_code).exc # ""
    /\ IF RunCatches(Analyze(user_code).exc)
       THEN /\ emitted' = Append(emitted, Message("analysis_failed", ""))
            /\ pc' = "returned"
       ELSE /\ emitted' = emitted
            /\ pc' = "aborted"
    /\ UNCHANGED <<user_code, functions, func_idx, reports, requests, fallback_calls,
                   orchstate, harness, args,
                   saved>>

\* lines 348-378: analysis succeeds, the functions are listed, self.reports is cleared
AnalysisSucceeds ==
    /\ pc = "run"
    /\ Analyze(user_code).exc = ""
    /\ functions' = Analyze(user_code).functions
    /\ reports' = {}
    /\ pc' = "loop"
    /\ UNCHANGED <<user_code, func_idx, emitted, requests, fallback_calls, orchstate,
                   harness, args,
                   saved>>

\* lines 381-385
SkipPrivate ==
    /\ pc = "loop"
    /\ func_idx < Len(functions)
    /\ IsPrivate(functions[func_idx + 1].name)
    /\ func_idx' = func_idx + 1
    /\ emitted' = Append(emitted, Message("skipping", functions[func_idx + 1].name))
    /\ UNCHANGED <<pc, user_code, functions, reports, requests, fallback_calls, orchstate,
                   harness, args,
                   saved>>

\* lines 387-431 for function fa, whose generation came to g
AfterGeneration(fa, g) ==
    /\ func_idx' = func_idx + 1
    /\ requests' = requests + g.requests
    /\ fallback_calls' = fallback_calls + (IF g.fallback_called THEN 1 ELSE 0)
    /\ IF g.exc # ""
       THEN /\ reports' = reports
            /\ IF RunCatches(g.exc)
               THEN /\ emitted' = emitted \o <<Message("analyzing", fa.name),
                                              Message("error", fa.name)>>
                    /\ pc' = "loop"
               ELSE /\ emitted' = Append(emitted, Message("analyzing", fa.name))
                    /\ pc' = "aborted"
       ELSE /\ pc' = "loop"
            /\ IF g.tests # <<>>
               THEN /\ emitted' = emitted \o <<Message("analyzing", fa.name),
                                              Message("generated", fa.name)>>
                                  \o TestItems(fa.name, g.tests)
                    /\ reports' = PutReport(reports, fa, g.tests)
               ELSE /\ emitted' = emitted \o <<Message("analyzing", fa.name),
                                              Message("no_tests", fa.name)>>
                    /\ reports' = reports
    /\ UNCHANGED <<user_code, functions, orchstate, harness, args,
                   saved>>

\* one iteration of the loop of line 380 for a function that is not skipped
ProcessFunction ==
    /\ pc = "loop"
    /\ func_idx < Len(functions)
    /\ ~IsPrivate(functions[func_idx + 1].name)
    /\ \E g \in GenerationResults(functions[func_idx + 1]) :
          AfterGeneration(functions[func_idx + 1], g)

\* lines 433-436
Finish ==
    /\ pc = "loop"
    /\ func_idx = Len(functions)
    /\ emitted' = Append(emitted, Message("completed", ""))
    /\ pc' = "returned"
    /\ UNCHANGED <<user_code, functions, func_idx, reports, requests, fallback_calls,
                   orchstate, harness, args,
                   saved>>

NextRun ==
    \/ AnalysisFails
    \/ AnalysisSucceeds
    \/ SkipPrivate
    \/ ProcessFunction
    \/ Finish

SpecRun == InitRun /\ [][NextRun]_vars

-----------------------------------------------------------------------------
(* main *)

\* after parse_args, with a generator just constructed (its report map is empty,
\* line 321) and user_code the text that will be read
InitMain ==
    /\ pc = "main"
    /\ func_analysis = PlainProfile(<<>>)
    /\ user_code \in RunCodes
    /\ args \in [save_tests : BOOLEAN, json : BOOLEAN, no_pdf : BOOLEAN]
    /\ saved = {}
    /\ reports = {}
    /\ functions = <<>>
    /\ func_idx = 0
    /\ emitted = <<>>
    /\ requests = 0
    /\ fallback_calls = 0
    /\ OrchIdle
    /\ ParseIdle
    /\ ScoreIdle
    /\ FallbackIdle

\* lines 1410-1438: the backend is checked and the code is read; main exits when
\* the backend is down, the file cannot be read or the code is blank
ReadCode ==
    /\ pc = "main"
    /\ \E ok \in BOOLEAN : pc' = IF ok THEN "call_run" ELSE "exit"
    /\ UNCHANGED <<func_analysis, orchstate, harness, runstate>>

\* lines 1440-1445: generator.run(code) as an expression statement.  run holds
\* yield expressions, so the call builds a generator object and runs none of its
\* body; the object is dropped and nothing is raised
CallRun ==
    /\ pc = "call_run"
    /\ pc' = "report_step"
    /\ UNCHANGED <<func_analysis, orchstate, harness, runstate>>

\* lines 1447-1475: the reports are saved when the report map is not empty; pdf
\* says whether the user asked for the PDF and it was written
ReportStep ==
    /\ pc = "report_step"
    /\ \E pdf \in BOOLEAN :
          saved' = IF reports = {} THEN {}
                   ELSE (IF args.save_tests THEN {"tests"} ELSE {})
                        \cup (IF args.json THEN {"json"} ELSE {})
                        \cup (IF ~args.no_pdf /\ pdf THEN {"pdf"} ELSE {})
    /\ pc' = "completed"
    /\ UNCHANGED <<func_analysis, orchstate, harness, user_code, functions, func_idx,
                   reports, emitted, requests, fallback_calls, args>>

NextMain ==
    \/ ReadCode
    \/ CallRun
    \/ ReportStep

SpecMain == InitMain /\ [][NextMain]_vars

-----------------------------------------------------------------------------
(* Properties *)

Range(seq) == {seq[i] : i \in 1..Len(seq)}

FailedOutcome(o) == OutcomeSeq[o].kind \in {"connection_error", "bad_status", "non_text"}

StepRan(i, step) == i <= Len(steps) /\ steps[i].step = step /\ steps[i].ran

\* C1: no exception leaves _generate_ai_tests, whatever the completion requests come
\* to (a text, a connection failure, a non-success status, a response that is no
\* text); an attempt whose request or parse fails adds nothing to the running set;
\* and the call ends with a sequence of records.
C1_NeverPropagates ==
    /\ raised = FALSE
    /\ \A i \in 1..Len(steps) :
          (steps[i].ran /\ steps[i].step # "fallback" /\ FailedOutcome(steps[i].outcome))
              => steps[i].after = steps[i].before
    /\ pc = "done" =>
          /\ DOMAIN final = 1..Len(final)
          /\ \A i \in 1..Len(final) :
                DOMAIN final[i] = {"code", "description", "test_type", "expected",
                                   "quality_score"}

\* C1 witness: a finished call whose first request could not connect, whose second
\* got a non-success status and whose third returned records.
C1_Witness ==
    /\ pc = "done"
    /\ StepRan(1, "attempt1") /\ OutcomeSeq[steps[1].outcome].kind = "connection_error"
    /\ StepRan(2, "attempt2") /\ OutcomeSeq[steps[2].outcome].kind = "bad_status"
    /\ StepRan(3, "attempt3") /\ steps[3].after > steps[3].before
    /\ final # <<>>

DistinctCodes(ts) == \A i, j \in 1..Len(ts) : i # j => ts[i].code # ts[j].code

\* C2: the running set has pairwise distinct codes after every merge step, and so
\* has the returned sequence.
C2_UniqueCodes == DistinctCodes(all_tests) /\ DistinctCodes(final)

\* C2 witness: a finished call in which a completion that repeats a code inside
\* itself came back twice, and the fallback generator, whose output repeats a code
\* and shares one with that completion, ran as well.
C2_Witness ==
    /\ pc = "done"
    /\ func_analysis = PlainProfile(<<"bool">>)
    /\ StepRan(1, "attempt1") /\ steps[1].outcome = Len(OutcomeSeq)
    /\ StepRan(2, "attempt2") /\ steps[2].outcome = Len(OutcomeSeq)
    /\ fallback_called
    /\ ~DistinctCodes(AttemptTable[Len(OutcomeSeq)].tests)
    /\ ~DistinctCodes(GenerateIntelligentFallback(func_analysis))
    /\ Len(final) > 2

\* C3: attempt 2's request is issued exactly when the running set after attempt 1
\* has fewer than 0.75 x target records, the product compared without truncation.
C3_Attempt2Untruncated ==
    \A i \in 1..Len(steps) :
        steps[i].step = "attempt2" =>
            (steps[i].ran <=> steps[i].before * 100 < 75 * target_tests)

\* C4: attempt 3's request is issued exactly when the running set after the
\* attempt-2 step has fewer than 0.5 x target records, the product compared without
\* truncation.
C4_Attempt3Untruncated ==
    \A i \in 1..Len(steps) :
        steps[i].step = "attempt3" =>
            (steps[i].ran <=> steps[i].before * 100 < 50 * target_tests)

\* C5: the fallback generator is invoked exactly when the running set after the
\* attempt-3 step has fewer than 10 records, whatever the target; when it is not
\* invoked, no record of its output is in the result.
C5_FallbackBelowTen ==
    /\ \A i \in 1..Len(steps) :
          steps[i].step = "fallback" => (steps[i].ran <=> steps[i].before < 10)
    /\ fallback_called <=> \E i \in 1..Len(steps) : StepRan(i, "fallback")
    /\ (pc = "done" /\ ~fallback_called) =>
          Range(final) \cap Range(GenerateIntelligentFallback(func_analysis)) = {}

\* C5 witness: a finished call for a function whose target is above 20, in which
\* the fallback step found exactly 10 records and did not invoke the generator.
C5_Witness ==
    /\ pc = "done"
    /\ target_tests > 20
    /\ Len(steps) = 4 /\ steps[4].step = "fallback" /\ ~steps[4].ran
    /\ steps[4].before = 10
    /\ ~fallback_called
    /\ Len(final) = 10

AllUnreachable ==
    /\ Len(steps) >= 3
    /\ \A i \in 1..3 : steps[i].ran /\ OutcomeSeq[steps[i].outcome].kind = "connection_error"

\* C6: for a simple parameterless utility function that raises and calls nothing,
\* of any return type, the target is 20 and, when every request fails as
\* unreachable, the returned sequence has as many records as the fallback generator
\* returns, at least 2 and at most 20.
C6_FallbackOnlySize ==
    (\E rt \in ReturnTypes : func_analysis = PlainProfile(rt)) =>
        /\ pc # "start" => target_tests = 20
        /\ (pc = "done" /\ AllUnreachable) =>
              /\ Len(final) = Len(GenerateIntelligentFallback(func_analysis))
              /\ Len(final) >= 2
              /\ Len(final) <= 20

\* the target as the sum of its terms
TargetSum(fa) ==
    20
    + (IF fa.complexity = "complex" THEN 15 ELSE IF fa.complexity = "moderate" THEN 8 ELSE 0)
    + (IF fa.func_type \in {"context_manager", "db_function", "api_endpoint"} THEN 10
       ELSE IF fa.func_type = "auth_function" THEN 8 ELSE 0)
    + (IF Len(fa.parameters) > 3 THEN 3 * Len(fa.parameters) ELSE 2 * Len(fa.parameters))
    + 2 * Len(fa.raises_exceptions)
    + Len(fa.external_calls)

ModerateTwoParams == MakeProfile("moderate", "utility", 2, "", <<>>, FALSE, FALSE, 0, 0)

\* C7: _calculate_target_tests returns min(100, 20 + complexity term + category term
\* + parameter term + 2 x raised exceptions + external calls), and 32 for a moderate
\* utility function with 2 parameters that raises and calls nothing.
C7_TargetFormula ==
    pc = "targeted" =>
        /\ target_tests = IF TargetSum(func_analysis) < 100 THEN TargetSum(func_analysis)
                          ELSE 100
        /\ func_analysis = ModerateTwoParams => target_tests = 32

\* C7 witness: the function was called on the moderate two-parameter utility profile.
C7_Witness == pc = "targeted" /\ func_analysis = ModerateTwoParams /\ target_tests = 32

\* what step i produced: the records parsed from its completion, or the fallback output
Produced(i) ==
    IF i > Len(steps) \/ ~steps[i].ran THEN <<>>
    ELSE IF steps[i].step = "fallback" THEN GenerateIntelligentFallback(func_analysis)
    ELSE AttemptTable[steps[i].outcome].tests

ProducedSoFar == Produced(1) \o Produced(2) \o Produced(3) \o Produced(4)

\* the positions of seq that hold the first record with their code
FirstPositions(seq) ==
    {i \in 1..Len(seq) : \A j \in 1..(i - 1) : seq[j].code # seq[i].code}

\* the records of seq at the positions of its first occurrences, in order
FirstSeen(seq) ==
    [k \in 1..Cardinality(FirstPositions(seq)) |-> seq[Nth(FirstPositions(seq), k)]]

\* C8: the running set, and with it the returned sequence, lists the records in
\* first-seen order: attempt 1's in parse order, then attempt 2's, attempt 3's and
\* the fallback's; of the records with one code the first is kept, whole and in place.
C8_FirstSeenOrder ==
    /\ all_tests = FirstSeen(ProducedSoFar)
    /\ pc = "done" => final = FirstSeen(ProducedSoFar)

\* C8 witness: a finished call in which attempt 2 and the fallback generator each
\* produced a code that was already present with other fields.
C8_Witness ==
    /\ pc = "done"
    /\ func_analysis = PlainProfile(<<"str">>)
    /\ StepRan(1, "attempt1") /\ steps[1].outcome = Len(OutcomeSeq)
    /\ StepRan(2, "attempt2")
    /\ StepRan(4, "fallback")
    /\ \E i \in 1..Len(final) : \E t \in Range(Produced(4)) :
          final[i].code = t.code /\ final[i] # t
    /\ \E i \in 1..Len(final) : \E t \in Range(Produced(2)) :
          final[i].code = t.code /\ final[i] # t

\* the blocks of the completion whose CODE and EXPECTED fields are both non-empty
FilledBlocks(text) ==
    {i \in 1..Len(FindAll(text)) :
        /\ ~ParseTestBlock(FindAll(text)[i]).is_none
        /\ ParseTestBlock(FindAll(text)[i]).code # <<>>
        /\ ParseTestBlock(FindAll(text)[i]).expected # <<>>}

\* C9: _parse_ai_response returns one record for each block whose CODE and EXPECTED
\* fields are both non-empty, in block order and with those fields, and none for any
\* other block; the text of the example yields exactly one record.
C9_OneRecordPerFilledBlock ==
    pc = "parsed" =>
        /\ Len(parsed) = Cardinality(FilledBlocks(response))
        /\ \A k \in 1..Len(parsed) :
              /\ parsed[k].code = ParseTestBlock(FindAll(response)[Nth(FilledBlocks(response), k)]).code
              /\ parsed[k].expected = ParseTestBlock(FindAll(response)[Nth(FilledBlocks(response), k)]).expected
        /\ Len(parsed) <= Cardinality(TagPositions(response))
        /\ response = ExampleText => Len(parsed) = 1

\* C9 witness: the example text was parsed: two blocks, one record.
C9_Witness ==
    /\ pc = "parsed"
    /\ response = ExampleText
    /\ Len(FindAll(response)) = 2
    /\ Len(parsed) = 1

\* 0.1 <= q <= 1.0
InRange(q) == q * 10 >= ScoreOne /\ q <= ScoreOne

\* C10: every record of the running set and of the returned sequence, parsed or
\* produced by the fallback generator, has a quality score within [0.1, 1.0], and so
\* has every value _score_test_quality returns.
C10_ScoreInRange ==
    /\ \A i \in 1..Len(all_tests) : InRange(all_tests[i].quality_score)
    /\ \A i \in 1..Len(final) : InRange(final[i].quality_score)
    /\ pc = "scored" => InRange(quality)

\* C10 witness: the scorer was given a code that holds the function name and an
\* assert and is over 60 characters long, so that the product exceeds 1.0.
C10_Witness ==
    /\ pc = "scored"
    /\ Contains(test_data.code, "f") /\ ContainsLower(test_data.code, "assert")
    /\ CharLen(test_data.code) > 60
    /\ RawScore(test_data.code, test_data.expected, "f") > ScoreOne
    /\ quality = ScoreOne

\* the number of records of the fixed set of a profile's category
CategoryMinimum(fa) ==
    CASE fa.func_type = "api_endpoint" -> 5
      [] fa.func_type = "context_manager" -> 4
      [] fa.func_type = "db_function" -> 4
      [] fa.func_type = "auth_function" -> 5
      [] OTHER -> IF Len(fa.parameters) = 0 THEN 2
                  ELSE IF Len(fa.parameters) = 1 THEN 5 ELSE 4

\* a profile with no raised exceptions that is neither a generator nor async
BareProfile(fa) == fa.raises_exceptions = <<>> /\ ~fa.is_generator /\ ~fa.is_async

\* C11: _generate_intelligent_fallback returns at most 20 records and at least as
\* many as the fixed set of the profile's category; exactly 5 for an auth_function
\* profile that raises nothing and is neither a generator nor async.
C11_FallbackSize ==
    pc = "generated" =>
        /\ Len(fallback_tests) <= 20
        /\ Len(fallback_tests) >= CategoryMinimum(func_analysis)
        /\ (func_analysis.func_type = "auth_function" /\ BareProfile(func_analysis))
              => Len(fallback_tests) = 5

\* C11 witness: the generator was called on a bare auth_function profile and
\* returned 5 records.
C11_Witness ==
    /\ pc = "generated"
    /\ func_analysis.func_type = "auth_function" /\ BareProfile(func_analysis)
    /\ Len(fallback_tests) = 5

\* C13: for a context_manager profile that raises nothing and is neither a generator
\* nor async, _generate_intelligent_fallback returns exactly 4 records, each with
\* quality score 0.5.
C13_ContextManagerFour ==
    (/\ pc = "generated"
     /\ func_analysis.func_type = "context_manager"
     /\ BareProfile(func_analysis)) =>
        /\ Len(fallback_tests) = 4
        /\ \A i \in 1..Len(fallback_tests) : fallback_tests[i].quality_score * 2 = ScoreOne

\* C13 witness: the generator was called on a bare context_manager profile and
\* returned 4 records.
C13_Witness ==
    /\ pc = "generated"
    /\ func_analysis.func_type = "context_manager" /\ BareProfile(func_analysis)
    /\ Len(fallback_tests) = 4
    /\ fallback_tests[1].quality_score * 2 = ScoreOne

CodesOf(seq) == {seq[i].code : i \in 1..Len(seq)}

\* the codes of the running set before step i
CodesBefore(i) == UNION {CodesOf(Produced(j)) : j \in 1..(i - 1)}

\* an attempt that ran and whose completion was a text
TextAttempt(i) ==
    /\ i <= Len(steps) /\ steps[i].ran /\ steps[i].step # "fallback"
    /\ OutcomeSeq[steps[i].outcome].kind = "ok"

\* C12: merging the parse of a text into a running set of N distinct codes leaves it
\* with N plus the number of distinct codes of the text that were not in the set;
\* merging the parse of the same text again adds nothing.
C12_MergeIdempotent ==
    /\ \A i \in 1..Len(steps) :
          TextAttempt(i) =>
              steps[i].after = steps[i].before
                               + Cardinality(CodesOf(Produced(i)) \ CodesBefore(i))
    /\ \A i, j \in 1..Len(steps) :
          (i < j /\ TextAttempt(i) /\ TextAttempt(j) /\ steps[i].outcome = steps[j].outcome)
              => steps[j].after = steps[j].before

\* C12 witness: attempt 1 left a record, attempt 2 merged a text that repeats a
\* code and holds a code already in the set, and attempt 3 got the same text again.
C12_Witness ==
    /\ Len(steps) >= 3
    /\ steps[1].ran /\ steps[1].after > 0
    /\ TextAttempt(2) /\ TextAttempt(3)
    /\ steps[2].outcome = steps[3].outcome
    /\ ~DistinctCodes(Produced(2))
    /\ CodesOf(Produced(2)) \cap CodesOf(Produced(1)) # {}
    /\ steps[2].after > steps[2].before
    /\ steps[3].after = steps[3].before

\* an attempt that ran and whose request came to an outcome of this kind
AttemptOfKind(i, kind) ==
    /\ steps[i].ran /\ steps[i].step # "fallback"
    /\ OutcomeSeq[steps[i].outcome].kind = kind

\* C14: the error generate raises for an unreachable backend is of another kind
\* than the error it raises for a non-success response.
C14_ErrorKindsDiffer ==
    \A i, j \in 1..Len(steps) :
        (AttemptOfKind(i, "connection_error") /\ AttemptOfKind(j, "bad_status"))
            => Generate(OutcomeSeq[steps[i].outcome]).exc
               # Generate(OutcomeSeq[steps[j].outcome]).exc

\* C15: when analyze fails on source text that is not syntactically valid, run
\* reports the failure and ends: no completion request is issued, the fallback
\* generator is not invoked and the report map gets no entry
C15_FailedAnalysisEndsRun ==
    ~user_code.valid =>
        /\ pc \in {"run", "returned"}
        /\ requests = 0
        /\ fallback_calls = 0
        /\ reports \subseteq StaleReports
        /\ func_idx = 0
        /\ (pc = "returned" => emitted = <<Message("analysis_failed", "")>>)

\* C15 witness: a run ended on a text that does not parse although it holds
\* two defs, with the entry of an earlier run still in the report map
C15_Witness ==
    /\ ~user_code.valid
    /\ pc = "returned"
    /\ Len(user_code.functions) = 2
    /\ reports = StaleReports
    /\ emitted # <<>>

\* what run yielded right after it announced the function of that name
AnnouncedThen(name, kinds) ==
    \E k \in 1..(Len(emitted) - 1) :
        /\ emitted[k] = Message("analyzing", name)
        /\ emitted[k + 1].func_name = name
        /\ emitted[k + 1].kind \in kinds

GenerationFailed(name) == AnnouncedThen(name, {"error"})

\* its generation was attempted and, if it yielded tests, its entry was written
Processed(name) ==
    /\ AnnouncedThen(name, {"generated", "no_tests", "error"})
    /\ (AnnouncedThen(name, {"generated"}) =>
            \E e \in reports : e.func_name = name /\ e.tests # <<>>)

\* the functions after the one whose generation raised
LaterFunctions ==
    {j \in 1..Len(functions) :
        \E i \in 1..(j - 1) : GenerationFailed(functions[i].name)}

\* C16 as stated: after a failure raised while generating tests for one function,
\* every later function of the analysis map is still processed
C16_EveryLaterFunctionProcessed ==
    pc = "returned" =>
        \A j \in LaterFunctions : Processed(functions[j].name)

\* C16 as amended: the failure is caught at its function, the run goes on to its
\* end, and every later function whose name does not start with an underscore is
\* processed: generation attempted, report entry written if it yielded tests
C16_LaterPublicFunctionsProcessed ==
    /\ pc # "aborted"
    /\ pc = "returned" =>
           \A j \in LaterFunctions :
               ~IsPrivate(functions[j].name) => Processed(functions[j].name)

\* C16 witness: a finished run whose first function failed and whose second
\* function got its tests and its report entry
C16_Witness ==
    /\ pc = "returned"
    /\ Len(functions) = 2
    /\ GenerationFailed(functions[1].name)
    /\ AnnouncedThen(functions[2].name, {"generated"})
    /\ \E e \in reports : e.func_name = functions[2].name /\ e.tests # <<>>
    /\ \A e \in reports : e.func_name # functions[1].name

AboveBar(test) == test.quality_score * 10 > 7 * ScoreOne

\* the dicts yielded right after position k are the records of tests, one each, in
\* order, and no further test dict follows them
EmittedAt(k, tests) ==
    /\ k + Len(tests) <= Len(emitted)
    /\ \A i \in 1..Len(tests) :
          emitted[k + i].kind = "test" /\ emitted[k + i].test = tests[i]
    /\ (k + Len(tests) < Len(emitted) => emitted[k + Len(tests) + 1].kind # "test")

\* C17: every record of a finalized set is emitted with status 'passed' exactly
\* when its score is above 0.7 and 'failed' otherwise, and the score does not
\* decide retention: the report entry of a function holds exactly the records
\* emitted for it, those scoring 0.7 or less included
C17_StatusFromScoreOnly ==
    /\ \A k \in 1..Len(emitted) :
          emitted[k].kind = "test" =>
              /\ emitted[k].status \in {"passed", "failed"}
              /\ (emitted[k].status = "passed" <=> AboveBar(emitted[k].test))
    /\ \A k \in 1..Len(emitted) :
          emitted[k].kind = "generated" =>
              \E e \in reports :
                  /\ e.func_name = emitted[k].func_name
                  /\ EmittedAt(k, e.tests)

\* C17 witness: a finished run with a report entry that holds a record above the
\* bar and a record at or below it, both emitted
C17_Witness ==
    /\ pc = "returned"
    /\ \E e \in reports :
          /\ \E i \in 1..Len(e.tests) : AboveBar(e.tests[i])
          /\ \E i \in 1..Len(e.tests) : ~AboveBar(e.tests[i])
          /\ \E k \in 1..Len(emitted) :
                /\ emitted[k] = Message("generated", e.func_name)
                /\ EmittedAt(k, e.tests)
    /\ \E k \in 1..Len(emitted) : emitted[k].kind = "test" /\ emitted[k].status = "failed"
    /\ \E k \in 1..Len(emitted) : emitted[k].kind = "test" /\ emitted[k].status = "passed"

Temperatures == <<"0.7", "0.8", "0.9">>
StepOrder == <<"attempt1", "attempt2", "attempt3", "fallback">>

\* C18: the requests of one function form a prefix of (attempt 1 at 0.7, attempt 2
\* at 0.8, attempt 3 at 0.9): attempt 1 is always issued, each attempt is issued at
\* most once, attempt 3 never without attempt 2, and each request is issued on the
\* running set the previous attempt left after its merge
C18_RequestsInOrder ==
    /\ \E n \in 0..3 : issued = SubSeq(Temperatures, 1, n)
    /\ Len(steps) <= 4
    /\ \A i \in 1..Len(steps) : steps[i].step = StepOrder[i]
    /\ Len(issued) = Cardinality({i \in 1..Len(steps) : i <= 3 /\ steps[i].ran})
    /\ (pc \notin {"start", "attempt1"} => StepRan(1, "attempt1") /\ issued[1] = "0.7")
    /\ (StepRan(3, "attempt3") => StepRan(2, "attempt2"))
    /\ (steps # <<>> => steps[1].before = 0 /\ steps[Len(steps)].after = Len(all_tests))
    /\ \A i \in 2..Len(steps) : steps[i].before = steps[i - 1].after

\* C18 witness: a finished call whose first request failed and was not repeated,
\* and whose second and third requests followed in order
C18_Witness ==
    /\ pc = "done"
    /\ issued = Temperatures
    /\ StepRan(1, "attempt1") /\ FailedOutcome(steps[1].outcome)
    /\ StepRan(2, "attempt2") /\ steps[2].after > steps[2].before
    /\ StepRan(3, "attempt3")

\* the request failed, or its completion parsed to no valid record
NullOutcome(o) == FailedOutcome(o) \/ AttemptTable[o].tests = <<>>

NullAttempt(i) == i \in 1..3 /\ i <= Len(steps) /\ steps[i].ran /\ NullOutcome(steps[i].outcome)

\* the condition of step i of StepOrder on a running set of n records
StepCondition(i, n) ==
    IF i = 2 THEN n < Threshold2(target_tests)
    ELSE IF i = 3 THEN n < Threshold3(target_tests)
    ELSE NeedsFallback(n)

\* the steps after a null attempt are all taken, and the next one is decided on
\* the size the running set had before the null attempt
RemainingStepsEvaluated ==
    /\ (pc = "done" => Len(steps) = 4 /\ ~raised)
    /\ \A i \in 1..3 :
          NullAttempt(i) /\ i < Len(steps) =>
              /\ steps[i + 1].before = steps[i].before
              /\ (steps[i + 1].ran <=> StepCondition(i + 1, steps[i].before))

\* an attempt has just been made and it was a null attempt
NullAttemptMade ==
    /\ Len(steps') = Len(steps) + 1
    /\ NullAttempt(Len(steps))'

\* C19: an attempt whose request fails or whose completion parses to no valid
\* record leaves the running set exactly as it was, and the conditions of all
\* remaining steps (next attempt, fallback, final deduplication) are still
\* evaluated, on that unchanged set
C19_NullAttemptKeepsSet ==
    /\ []RemainingStepsEvaluated
    /\ [][NullAttemptMade =>
             /\ all_tests' = all_tests
             /\ seen_codes' = seen_codes
             /\ pc' = StepOrder[Len(steps') + 1]
             /\ ~raised']_vars

\* C19 witness: a finished call whose second attempt was a null attempt on a
\* running set that was not empty, followed by the third attempt and the fallback
C19_Witness ==
    /\ pc = "done"
    /\ NullAttempt(2)
    /\ steps[2].before > 0
    /\ steps[2].after = steps[2].before
    /\ StepRan(3, "attempt3")
    /\ StepRan(4, "fallback")
    /\ Len(final) >= steps[2].before

RecognizedLabels == {"TYPE", "CODE", "EXPECTED", "DESCRIPTION"}

\* a recognized label with its colon starts at position p of block s
RecognizedLabelAt(s, p) ==
    /\ Upper(s[p]) \in RecognizedLabels
    /\ AfterColon(s, SkipBlank(s, p + 1)) # 0

\* the units from position b up to the next recognized label or the end of the block
UpToNextLabel(s, b) ==
    SubSeq(s, b, Min({k \in b..Len(s) : RecognizedLabelAt(s, k)} \cup {Len(s) + 1}) - 1)

\* the value of the first `label:` of block s when it ends at the next recognized
\* label or at the end of the block, and nowhere else
ValueUpToLabel(s, label) ==
    Strip(UpToNextLabel(s, AfterLabel(s, Min({i \in 1..Len(s) : FieldAt(s, i, label)}),
                                      label)))

\* the block the k-th record of the parsed completion was made from
BlockOfRecord(k) == FindAll(response)[Nth(FilledBlocks(response), k)]

\* C20: the value extracted for CODE and for EXPECTED ends at the next recognized
\* label (TYPE, CODE, EXPECTED, DESCRIPTION) or at the end of the block and nowhere
\* else: not past a recognized label on the same line, not at a line that starts
\* with some other word and a colon
C20_ValueEndsAtRecognizedLabel ==
    pc = "parsed" =>
        \A k \in 1..Len(parsed) :
            /\ parsed[k].code = ValueUpToLabel(BlockOfRecord(k), "CODE")
            /\ parsed[k].expected = ValueUpToLabel(BlockOfRecord(k), "EXPECTED")

\* a utility-path profile with exactly one parameter
OneParamUtility(fa) ==
    /\ fa.func_type \notin {"api_endpoint", "context_manager", "db_function", "auth_function"}
    /\ Len(fa.parameters) = 1

\* the records of the fallback output that call the function with one value
ValueProbes ==
    {i \in 1..Len(fallback_tests) :
        fallback_tests[i].description[1] = "Function call with "}

\* C21: for a utility profile with exactly one parameter, the argument values of
\* the fallback probes come from the representative-value set of the parameter's
\* declared type (numeric, string, boolean, list-like, mapping-like), and from the
\* unknown-type set for a parameter without a type
C21_ProbeValuesByType ==
    (pc = "generated" /\ OneParamUtility(func_analysis)) =>
        /\ ValueProbes # {}
        /\ \A i \in ValueProbes :
              fallback_tests[i].description[2] \in Range(GetTestValues(func_analysis.parameters[1]))

UtilityPath(fa) ==
    fa.func_type \notin {"api_endpoint", "context_manager", "db_function", "auth_function"}

\* the result-type probes of the fallback output
TypeProbes ==
    {i \in 1..Len(fallback_tests) :
        fallback_tests[i].description[1] \in
            {"Returns boolean value", "Returns string value", "Returns numeric value"}}

NamesResultType(rt) ==
    \E sub \in {"bool", "str", "int", "float"} : ContainsLower(rt, sub)

\* C22: for a utility (or unmatched-category) profile the fallback generator appends
\* exactly one result-type probe when the return-type string contains bool, str, int
\* or float, also when it contains more than one of them, and none otherwise
C22_OneTypeProbe ==
    (pc = "generated" /\ UtilityPath(func_analysis)) =>
        Cardinality(TypeProbes) =
            IF NamesResultType(func_analysis.return_type) THEN 1 ELSE 0

\* what kind of probe the i-th record of the fallback output is
ProbeKind(i) ==
    IF fallback_tests[i].description[1] = "Handles " THEN "exception"
    ELSE IF fallback_tests[i].description = <<"Generator yields items">> THEN "generator"
    ELSE IF fallback_tests[i].description = <<"Async function executes">> THEN "async"
    ELSE "category"

\* min(3, number of raised exceptions)
ExceptionProbeCount(fa) ==
    IF Len(fa.raises_exceptions) < 3 THEN Len(fa.raises_exceptions) ELSE 3

TailProbeCount(fa) ==
    (IF fa.is_generator THEN 1 ELSE 0) + (IF fa.is_async THEN 1 ELSE 0)

\* the output is c category probes, then the exception probes of fa in the order
\* of its first exception names, then the generator probe, then the async probe
OrderedFrom(fa, c) ==
    /\ c >= CategoryMinimum(fa)
    /\ \A i \in 1..c : ProbeKind(i) = "category"
    /\ \A i \in 1..ExceptionProbeCount(fa) :
          /\ ProbeKind(c + i) = "exception"
          /\ fallback_tests[c + i].description[2] = fa.raises_exceptions[i]
    /\ (fa.is_generator => ProbeKind(c + ExceptionProbeCount(fa) + 1) = "generator")
    /\ (fa.is_async => ProbeKind(Len(fallback_tests)) = "async")

\* C23: for every category the fallback output is the category-specific probes,
\* then one exception probe for each of the first min(3, number of raised
\* exceptions) exception names, then the generator probe if is_generator, then the
\* async probe if is_async
C23_FallbackOrder ==
    pc = "generated" =>
        OrderedFrom(func_analysis,
                    Len(fallback_tests) - ExceptionProbeCount(func_analysis)
                        - TailProbeCount(func_analysis))

\* C23 witness: the output for an async generator that raises more than three
\* exceptions: three exception probes after the category probes, then both others
C23_Witness ==
    /\ pc = "generated"
    /\ Len(func_analysis.raises_exceptions) > 3
    /\ func_analysis.is_generator /\ func_analysis.is_async
    /\ Len(fallback_tests) = CategoryMinimum(func_analysis) + 5
    /\ ProbeKind(CategoryMinimum(func_analysis)) = "category"
    /\ ProbeKind(CategoryMinimum(func_analysis) + 1) = "exception"
    /\ ProbeKind(Len(fallback_tests) - 1) = "generator"
    /\ ProbeKind(Len(fallback_tests)) = "async"

\* the decorator text of the function being classified, and the signals read off
\* it and off the name
DecoratorText == JoinUnits(func_analysis.decorators)

EndpointMarker ==
    \E i \in 1..Len(DecoratorText) :
        Lower(DecoratorText[i]) \in {"get", "post", "put", "delete", "patch", "router"}

ContextSignal ==
    func_analysis.is_generator
    \/ \E i \in 1..Len(DecoratorText) : DecoratorText[i] = "contextmanager"

PersistenceName ==
    \E i \in 1..Len(func_analysis.name) :
        Lower(func_analysis.name[i]) \in {"db_", "query", "fetch", "create_session"}

AuthenticationName ==
    \E i \in 1..Len(func_analysis.name) :
        Lower(func_analysis.name[i]) \in {"auth", "login", "verify", "authenticate"}

PropertyMarker == \E i \in 1..Len(DecoratorText) : DecoratorText[i] = "property"

\* C24: _determine_function_type assigns exactly one category by priority: endpoint
\* marker, then contextmanager decorator or generator-ness, then persistence-like
\* name, then authentication-like name, then property decorator, then utility; a
\* higher-priority signal wins over any combination of lower-priority signals
C24_CategoryPriority ==
    pc = "determined" =>
        /\ func_analysis.func_type \in FuncTypes
        /\ (EndpointMarker => func_analysis.func_type = "api_endpoint")
        /\ (~EndpointMarker /\ ContextSignal => func_analysis.func_type = "context_manager")
        /\ (~EndpointMarker /\ ~ContextSignal /\ PersistenceName
               => func_analysis.func_type = "db_function")
        /\ (~EndpointMarker /\ ~ContextSignal /\ ~PersistenceName /\ AuthenticationName
               => func_analysis.func_type = "auth_function")
        /\ (~EndpointMarker /\ ~ContextSignal /\ ~PersistenceName /\ ~AuthenticationName
               /\ PropertyMarker => func_analysis.func_type = "property")
        /\ (~EndpointMarker /\ ~ContextSignal /\ ~PersistenceName /\ ~AuthenticationName
               /\ ~PropertyMarker => func_analysis.func_type = "utility")

\* C24 witness: a function with a property decorator and a name that suggests both
\* persistence and authentication was classified db_function
C24_Witness ==
    /\ pc = "determined"
    /\ PropertyMarker /\ PersistenceName /\ AuthenticationName
    /\ ~EndpointMarker /\ ~ContextSignal
    /\ func_analysis.func_type = "db_function"

\* C25: whenever the fallback generator is invoked, attempts 1, 2 and 3 have all
\* been issued before it; it never runs after only one or two attempts
C25_FallbackAfterThreeAttempts ==
    fallback_called =>
        /\ issued = Temperatures
        /\ StepRan(1, "attempt1") /\ StepRan(2, "attempt2") /\ StepRan(3, "attempt3")
        /\ StepRan(4, "fallback")

\* C25 witness: with the smallest target, 20, the first attempt gave 9 records, the
\* other two attempts were made and added nothing, and the fallback generator ran
C25_Witness ==
    /\ pc = "done"
    /\ fallback_called
    /\ target_tests = 20
    /\ steps[1].after = 9
    /\ steps[3].after = 9
    /\ issued = Temperatures

\* C26: _generate_ai_tests never returns an empty sequence, it returns at least 2
\* records whatever the completion requests come to; so in a run the 'No tests
\* generated' branch is never taken and every function whose name does not start
\* with an underscore, and whose generation returned, gets a report entry
C26_NeverEmpty ==
    /\ \A k \in 1..Len(emitted) : emitted[k].kind # "no_tests"
    /\ \A e \in reports : Len(e.tests) >= 2
    /\ \A i \in 1..func_idx :
          IsPrivate(functions[i].name)
          \/ GenerationFailed(functions[i].name)
          \/ (/\ AnnouncedThen(functions[i].name, {"generated"})
              /\ \E e \in reports : e.func_name = functions[i].name)

\* C26 witness: a finished run over two functions in which all six requests were
\* issued and the fallback generator ran twice; both functions have their entry,
\* one of them with exactly 2 records
C26_Witness ==
    /\ pc = "returned"
    /\ Len(functions) = 2
    /\ requests = 6
    /\ fallback_calls = 2
    /\ Cardinality(reports) = 2
    /\ \E e \in reports : Len(e.tests) = 2

\* C27: in main, by the time control reaches the report-saving step, the run over
\* the supplied code has executed to completion: the analysis was performed and
\* every non-private function was processed, so the report map holds the entries
\* of that run
C27_RunCompleteAtReportStep ==
    pc \in {"report_step", "completed"} =>
        /\ emitted # <<>>
        /\ user_code.valid =>
              /\ functions = user_code.functions
              /\ func_idx = Len(functions)
              /\ \A i \in 1..Len(functions) :
                    ~IsPrivate(functions[i].name) =>
                        /\ Processed(functions[i].name)
                        /\ \E e \in reports : e.func_name = functions[i].name

\* the score q of a parsed record with that code and expected text
ParsedScoreRule(code, expected, q) ==
    /\ expected # <<>>
    /\ (CharLen(code) >= 5 => q = ScoreOne)
    /\ (CharLen(code) < 5 => q < ScoreOne)

\* how many records of the running set were parsed from completions
ParsedCount ==
    IF steps = <<>> THEN 0
    ELSE steps[IF Len(steps) < 3 THEN Len(steps) ELSE 3].after

\* C28: every record _parse_ai_response returns whose code has at least 5
\* characters scores exactly 1.0, with or without the function name or an assert
\* and whatever its length; only a code shorter than 5 characters scores below 1.0;
\* no parsed record gets the penalty for an empty expected text
C28_ParsedScoreOne ==
    /\ \A i \in 1..ParsedCount :
          ParsedScoreRule(all_tests[i].code, all_tests[i].expected,
                          all_tests[i].quality_score)
    /\ (pc = "scored" /\ BlockComplete(test_data)) =>
          ParsedScoreRule(test_data.code, test_data.expected, quality)

\* C28 witness: the score of a complete block whose code has 5 characters and
\* holds neither the function name nor an assert
C28_Witness ==
    /\ pc = "scored"
    /\ BlockComplete(test_data)
    /\ CharLen(test_data.code) = 5
    /\ ~Contains(test_data.code, func_analysis.name)
    /\ ~ContainsLower(test_data.code, "assert")
    /\ quality = ScoreOne

\* the result-type probes the utility path builds for a return-type string
TypeProbeCount(rt) ==
    (IF ContainsLower(rt, "bool") THEN 1 ELSE 0)
    + (IF ContainsLower(rt, "str") THEN 1 ELSE 0)
    + (IF ContainsLower(rt, "int") \/ ContainsLower(rt, "float") THEN 1 ELSE 0)

\* the category-specific records built for a profile
CategoryCount(fa) ==
    CategoryMinimum(fa) + (IF UtilityPath(fa) THEN TypeProbeCount(fa.return_type) ELSE 0)

\* C29: the fallback generator builds at most 13 records before the final slice
\* (at most 8 category-specific, 3 exception, 1 generator, 1 async), so the slice
\* to 20 removes nothing and the output length is the number of records built
C29_SliceRemovesNothing ==
    pc = "generated" =>
        /\ CategoryCount(func_analysis) <= 8
        /\ Cardinality({i \in 1..Len(fallback_tests) : ProbeKind(i) = "category"})
             = CategoryCount(func_analysis)
        /\ Cardinality({i \in 1..Len(fallback_tests) : ProbeKind(i) = "exception"}) <= 3
        /\ Len(fallback_tests) = CategoryCount(func_analysis)
                                   + ExceptionProbeCount(func_analysis)
                                   + TailProbeCount(func_analysis)
        /\ Len(fallback_tests) <= 13

\* C29 witness: the output for an async one-parameter utility function whose
\* return type names bool, str and int and that raises more than three exceptions:
\* 8 category records, 3 exception probes and the async probe
C29_Witness ==
    /\ pc = "generated"
    /\ CategoryCount(func_analysis) = 8
    /\ Len(func_analysis.raises_exceptions) > 3
    /\ func_analysis.is_async
    /\ Len(fallback_tests) = 12

\* the function the loop of run is about to take up has an underscore-led name
AtUnderscoredFunction ==
    /\ pc = "loop"
    /\ func_idx < Len(functions)
    /\ functions[func_idx + 1].name = "_h"

\* C30: during run a function whose name starts with an underscore is skipped: the
\* step that takes it up issues no completion request, does not invoke the fallback
\* generator and leaves the report map as it is, and the loop goes on to the next
\* function; the report map never holds an entry under such a name and generation
\* is never announced for it
C30_PrivateFunctionSkipped ==
    /\ [][AtUnderscoredFunction =>
            /\ requests' = requests
            /\ fallback_calls' = fallback_calls
            /\ reports' = reports
            /\ emitted' = Append(emitted, Message("skipping", "_h"))
            /\ func_idx' = func_idx + 1
            /\ pc' = "loop"]_vars
    /\ [](/\ \A e \in reports : e.func_name # "_h"
          /\ \A k \in 1..Len(emitted) : emitted[k] # Message("analyzing", "_h"))

\* C30 witness: a finished run over an underscore-led function followed by a public
\* one: the first was skipped without a request, the second got its report entry
C30_Witness ==
    /\ pc = "returned"
    /\ Len(functions) = 2
    /\ functions[1].name = "_h"
    /\ emitted[1] = Message("skipping", "_h")
    /\ AnnouncedThen(functions[2].name, {"generated"})
    /\ \E e \in reports : e.func_name = functions[2].name /\ e.tests # <<>>
    /\ \A e \in reports : e.func_name # "_h"
    /\ requests > 0

====
